---- MODULE Spec2Model ----
(***************************************************************************)
(* Scan orchestration and scoring pipeline of the accessibility scanner:   *)
(* POST /api/scan (freshness check, pending record, detached performScan), *)
(* performScan, the scans table with its set_completed_at trigger, the     *)
(* other routes and the Lambda worker that write scan records, and the     *)
(* scoring function calculateAccessibilityScore.                           *)
(***************************************************************************)
EXTENDS Integers, Sequences, FiniteSets, TLC

(***************************************************************************)
(* Bounds of the model.                                                    *)
(***************************************************************************)
MaxScans == 2
MaxReqs == 2
MaxTime == 20
TickMinutes == 10
MaxExtWrites == 1
MaxViolations == 2
MaxNodes == 3
MaxPasses == 2
MaxCaptureNodes == 3
MaxRateCalls == 6
MaxSettled == 2

(***************************************************************************)
(* Program constants.                                                      *)
(***************************************************************************)
FreshnessWindowMinutes == 15
DownloadWindowMinutes == 60
DownloadMaxRequests == 5
EmailWindowMinutes == 60
EmailMaxRequests == 3
StaleMinutes == 2
maxPolls == 40

ScanIds == 1..MaxScans
ReqIds == 1..MaxReqs
Times == 0..MaxTime

\* null and undefined, for strings, for numbers, for arrays and for objects.
Null == "null"
Undefined == "undefined"
NullNum == 0 - 1
UndefinedNum == 0 - 2
UndefinedArr == [undefined |-> TRUE]
NullObj == [null |-> TRUE]
UndefinedObj == [undefined |-> TRUE]

\* An array argument that is given.
Arr(items) == [items |-> items]

\* Principals: auth.getUser() yields a user or none (anonymous caller).
Users == {"alice", "bob"}
Callers == Users \cup {Null}

(***************************************************************************)
(* Findings and the scoring function (src/lib/axe-core.ts).                *)
(***************************************************************************)
Impacts == {"critical", "serious", "moderate", "minor"}

\* A violation: its impact and the length of its nodes list (Undefined when
\* the violation carries no nodes list).
Violation(i, n) == [impact |-> i, nodes |-> n]
ViolationValues == {Violation(i, n) : i \in Impacts, n \in (0..MaxNodes) \cup {UndefinedNum}}

\* A pass contributes to the score only through the length of the passes list.
PassValues == {"pass"}

RECURSIVE SeqsUpTo(_, _)
SeqsUpTo(S, n) ==
  IF n = 0 THEN {<<>>}
  ELSE LET shorter == SeqsUpTo(S, n - 1)
       IN shorter \cup {Append(q, x) : q \in {t \in shorter : Len(t) = n - 1}, x \in S}

ViolationLists == SeqsUpTo(ViolationValues, MaxViolations)
PassLists == SeqsUpTo(PassValues, MaxPasses)

\* A weighting that charges nothing for a critical violation.
WeightCriticalFree(impact) ==
  IF impact = "critical" THEN 0
  ELSE IF impact = "serious" THEN 3
  ELSE IF impact = "moderate" THEN 2
  ELSE 1

\* A weighting with the order of the impacts reversed.
WeightInverted(impact) ==
  IF impact = "critical" THEN 1
  ELSE IF impact = "serious" THEN 2
  ELSE IF impact = "moderate" THEN 3
  ELSE 4

\* A weighting that does not tell serious from moderate.
WeightSeriousAsModerate(impact) ==
  IF impact = "critical" THEN 4
  ELSE IF impact = "serious" THEN 2
  ELSE IF impact = "moderate" THEN 2
  ELSE 1

\* weight of one violation (axe-core.ts:234-241): anything that is not
\* critical, serious or moderate weighs 1.
Weight(impact) ==
  IF impact = "critical" THEN 4
  ELSE IF impact = "serious" THEN 3
  ELSE IF impact = "moderate" THEN 2
  ELSE 1

\* A node count that takes every violation as one node.
NodesAlwaysOne(v) == 1

\* (violation.nodes?.length || 1): an absent list and an empty list count 1.
NodesOrOne(v) == IF v.nodes = UndefinedNum \/ v.nodes = 0 THEN 1 ELSE v.nodes

\* violations.reduce((sum, violation) => sum + (nodes || 1) * weight, 0)
RECURSIVE ReduceWeighted(_, _, _)
ReduceWeighted(violations, i, sum) ==
  IF i > Len(violations) THEN sum
  ELSE ReduceWeighted(violations, i + 1,
                      sum + NodesOrOne(violations[i]) * Weight(violations[i].impact))

\* Math.round(x) for the rational x = num / den (den > 0): the nearest
\* integer, a tie going to the larger one, i.e. floor(x + 1/2).
MathRound(num, den) == (2 * num + den) \div (2 * den)

\* A maximum that lets its second argument through.
MathMaxUnclamped(a, b) == b

MathMax(a, b) == IF a >= b THEN a ELSE b
MathMin(a, b) == IF a <= b THEN a ELSE b

calculateAccessibilityScore(violations, passes) ==
  IF violations = UndefinedArr \/ passes = UndefinedArr THEN 0
  ELSE LET totalChecks == Len(violations.items) + Len(passes.items)
       IN IF totalChecks = 0 THEN 100
          ELSE LET weightedViolations == ReduceWeighted(violations.items, 1, 0)
                   maxPossibleScore == totalChecks * 4
                   \* 100 - (weightedViolations / maxPossibleScore) * 100
                   score == MathMax(0, MathRound(100 * maxPossibleScore - 100 * weightedViolations,
                                                 maxPossibleScore))
               IN MathMin(100, score)


(***************************************************************************)
(* What axe may report for a scanned page in the orchestration model: a    *)
(* clean page (one pass, no violation) and a page with one critical        *)
(* violation on two nodes and no pass.                                     *)
(***************************************************************************)
Findings(v, p) == [violations |-> v, passes |-> p]
CleanPage == Findings(<<>>, <<"pass">>)
BrokenPage == Findings(<<Violation("critical", 2)>>, <<>>)
ScanFindings == {CleanPage, BrokenPage}

\* A page with one critical violation on two nodes and ten passes.
ExamplePage == Findings(<<Violation("critical", 2)>>, [i \in 1..10 |-> "pass"])

(***************************************************************************)
(* Request bodies of POST /api/scan.  A url value is well formed when it   *)
(* is a string with a scheme and a host.                                   *)
(***************************************************************************)
UrlValue(isString, scheme, host) == [isString |-> isString, scheme |-> scheme, host |-> host]
UrlA == UrlValue(TRUE, "https", "a.example")
UrlB == UrlValue(TRUE, "https", "b.example")
Urls == {UrlA, UrlB}
BadUrls == {UrlValue(TRUE, "", "a.example")}
NotJson == [notJson |-> TRUE]
Bodies == {[url |-> u] : u \in Urls \cup BadUrls} \cup {NotJson}

\* A schema that only asks for the url field to be there.
IsUrlOrAnything(u) == u # UndefinedObj

\* z.string().url(): a string that parses as a URL.
IsUrl(u) == u # UndefinedObj /\ u.isString /\ u.scheme # "" /\ u.host # ""

\* request.json() followed by scanRequestSchema.parse(body): the url, or the
\* error thrown (a SyntaxError for a body that is no JSON, a ZodError).
ParseScanRequest(body) ==
  IF body = NotJson THEN [ok |-> FALSE, error |-> "SyntaxError"]
  ELSE IF IsUrl(body.url) THEN [ok |-> TRUE, url |-> body.url]
  ELSE [ok |-> FALSE, error |-> "ZodError"]

(***************************************************************************)
(* The scans table (schema, set_completed_at trigger, RLS select policy).  *)
(***************************************************************************)
NoScan == [absent |-> TRUE]
Statuses == {"pending", "completed", "failed"}

ScanRow(url, user, status, score, result, error, created, completed) ==
  [url |-> url, user_id |-> user, status |-> status, score |-> score,
   result_json |-> result, error |-> error, created_at |-> created,
   completed_at |-> completed]

\* A ScanResult as the application passes it around (database.ts:4-15); a
\* field that is not given is Undefined.
NoResult ==
  [status |-> Undefined, score |-> UndefinedNum, error |-> Undefined,
   completedAt |-> UndefinedNum, violations |-> UndefinedArr, passes |-> UndefinedArr]

\* mapResultToScanUpdate: only the fields that are given become columns of
\* the update.
mapResultToScanUpdate(result) ==
  [status |-> result.status,
   score |-> result.score,
   error |-> result.error,
   completed_at |-> result.completedAt,
   result_json |->
     IF result.violations # UndefinedArr \/ result.passes # UndefinedArr
     THEN Findings(IF result.violations = UndefinedArr THEN <<>> ELSE result.violations.items,
                   IF result.passes = UndefinedArr THEN <<>> ELSE result.passes.items)
     ELSE UndefinedObj]

\* UPDATE scans SET ... : the row with the given columns replaced.
SetColumns(row, update) ==
  [row EXCEPT
     !.status = IF update.status = Undefined THEN @ ELSE update.status,
     !.score = IF update.score = UndefinedNum THEN @ ELSE update.score,
     !.error = IF update.error = Undefined THEN @ ELSE update.error,
     !.completed_at = IF update.completed_at = UndefinedNum THEN @ ELSE update.completed_at,
     !.result_json = IF update.result_json = UndefinedObj THEN @ ELSE update.result_json]

\* BEFORE UPDATE trigger set_completed_at, NOW() being t.
set_completed_at(old, new, t) ==
  IF new.status = "completed" /\ old.status # "completed"
    THEN [new EXCEPT !.completed_at = t]
  ELSE IF new.status # "completed"
    THEN [new EXCEPT !.completed_at = NullNum]
  ELSE new

\* score INTEGER CHECK (score >= 0 AND score <= 100)
ScoreCheck(row) == row.score = NullNum \/ row.score \in 0..100

\* The row an UPDATE of `old` with `update` at time t would store.
UpdatedRow(old, update, t) == set_completed_at(old, SetColumns(old, update), t)

\* A select policy USING (true).
ReadableByAnyone(row, caller) == TRUE

\* RLS policy "Read access for anonymous scans and own scans".
Readable(row, caller) == row.user_id = Null \/ (caller # Null /\ caller = row.user_id)


\* An UPDATE without its WHERE id = ... clause.
DbUpdateAllRows(table, id, update, t) ==
  [i \in DOMAIN table |->
     IF table[i] = NoScan THEN table[i] ELSE UpdatedRow(table[i], update, t)]

\* The result of UPDATE scans SET update WHERE id = id at time t, when the
\* store accepts it: no row with that id, no change.
DbUpdate(table, id, update, t) ==
  IF table[id] = NoScan THEN table
  ELSE [table EXCEPT ![id] = UpdatedRow(table[id], update, t)]

\* mapResultToScanInsert for the pending ScanResult POST builds: the falsy
\* fields become null.
mapResultToScanInsert(result) ==
  ScanRow(result.url,
          IF result.userId = Undefined THEN Null ELSE result.userId,
          result.status,
          IF result.score = UndefinedNum \/ result.score = 0 THEN NullNum ELSE result.score,
          NullObj,
          IF result.error = Undefined THEN Null ELSE result.error,
          result.createdAt,
          IF result.completedAt = UndefinedNum THEN NullNum ELSE result.completedAt)

(***************************************************************************)
(* Thrown values and messages.                                             *)
(***************************************************************************)
NoThrow == [none |-> TRUE]
Thrown(msg) == [isError |-> TRUE, message |-> msg]

LaunchFailed == "Failed to launch the browser process"
PageFailed == "Protocol error: Target closed"
GotoTimeout == "Navigation timeout exceeded"
FailedToLoadPage == "Failed to load page: Navigation timeout exceeded"
NoAxeScript == "Failed to load axe-core from any source"
AxeRejected == "axe-core not loaded"
FailedToUpdateScan == "Failed to update scan: connection refused"
LambdaScanFailed == "Scan failed"

\* A catch block that records a fixed text instead of the message.
ErrorMessageFixed(e) == "Unknown error occurred"

\* error instanceof Error ? error.message : "Unknown error occurred"
ErrorMessage(e) == IF e.isError THEN e.message ELSE "Unknown error occurred"

(***************************************************************************)
(* State.                                                                  *)
(***************************************************************************)
VARIABLES
  scans,      \* the scans table: id -> row, or NoScan
  now,        \* the clock, in minutes
  nextId,     \* the next id uuidv4() yields
  extWrites,  \* requests served by the other writers of the table
  pc,         \* per scan id: where its performScan stands
  browser,    \* per scan id: performScan's `browser` is set
  caught,     \* per scan id: the error the catch block holds
  found,      \* per scan id: what runAxeOnPage returned
  gotos,      \* per scan id: page.goto calls made
  settles,    \* per scan id: 2 s settle delays waited after a goto
  loads,      \* per scan id: how each page.goto call ended, in order
  closes,     \* per scan id: browser.close() calls made
  attempts,   \* per scan id: updateScan calls made by performScan
  writes,     \* per scan id: statuses performScan wrote, in order
  escaped,    \* per scan id: the error performScan's promise rejected with
  runs,       \* per scan id: performScan invocations
  req,        \* per request: the POST /api/scan handler's position and locals
  resp,       \* per request: the response sent
  got,        \* the last response of GET /api/scan?id=
  capture,    \* the run of captureViolationScreenshots
  args,       \* scoring harness: the arguments
  result,     \* scoring harness: the value returned
  poller,     \* the ScanResults component: its state and its effect's locals
  lambdaResp, \* the Lambda handler's last invocation: its writes and response
  rateLimitMap, \* rate-limit.ts: identifier -> {count, resetTime}, or NoEntry
  rateLog,    \* the rateLimit calls made, in order, with what they returned
  report      \* the last response of a report route

vars == <<scans, now, nextId, extWrites, pc, browser, caught, found, gotos, settles, loads,
          closes, attempts, writes, escaped, runs, req, resp, got, capture, args, result,
          poller, lambdaResp, rateLimitMap, rateLog, report>>

scanVars == <<pc, browser, caught, found, gotos, settles, loads, closes, attempts, writes,
              escaped, runs>>
harnessVars == <<args, result>>
sideVars == <<got, capture>>
otherVars == <<poller, lambdaResp, rateLimitMap, rateLog, report>>

NoResp == [kind |-> "none"]
NoArgs == [violations |-> UndefinedArr, passes |-> UndefinedArr]
NoCapture == [axe |-> "idle", env |-> Undefined, scanId |-> UndefinedNum,
              violations |-> <<>>, started |-> FALSE, nodes |-> <<>>, cb |-> <<>>,
              capturedElements |-> {}, shots |-> <<>>, errors |-> {}, withShot |-> {},
              returned |-> <<>>]
NoLambda == [invoked |-> FALSE]
NoEntry == [absent |-> TRUE]
ClientIPs == {"203.0.113.7", "unknown"}
Identifiers == {prefix \o ip : prefix \in {"download-", "email-"}, ip \in ClientIPs}
NoPoller == [mounted |-> FALSE]
NewReq == [pc |-> "new", body |-> NotJson, caller |-> Null, url |-> UndefinedObj,
           recentScanError |-> FALSE, accesses |-> 0, scan |-> 0]

Init ==
  /\ scans = [s \in ScanIds |-> NoScan]
  /\ now = 0
  /\ nextId = 1
  /\ extWrites = 0
  /\ pc = [s \in ScanIds |-> "idle"]
  /\ browser = [s \in ScanIds |-> FALSE]
  /\ caught = [s \in ScanIds |-> NoThrow]
  /\ found = [s \in ScanIds |-> NullObj]
  /\ gotos = [s \in ScanIds |-> 0]
  /\ closes = [s \in ScanIds |-> 0]
  /\ attempts = [s \in ScanIds |-> 0]
  /\ writes = [s \in ScanIds |-> <<>>]
  /\ escaped = [s \in ScanIds |-> NoThrow]
  /\ runs = [s \in ScanIds |-> 0]
  /\ req = [r \in ReqIds |-> NewReq]
  /\ resp = [r \in ReqIds |-> NoResp]
  /\ settles = [s \in ScanIds |-> 0]
  /\ loads = [s \in ScanIds |-> <<>>]
  /\ got = NoResp
  /\ capture = NoCapture
  /\ args = NoArgs
  /\ result = NullNum
  /\ poller = NoPoller
  /\ lambdaResp = NoLambda
  /\ rateLimitMap = [k \in Identifiers |-> NoEntry]
  /\ rateLog = <<>>
  /\ report = NoResp


(***************************************************************************)
(* POST /api/scan (route.ts:502-588).                                      *)
(***************************************************************************)
\* The catch block's response: 400 with the first issue's message for a
\* ZodError, 500 otherwise.
InitiateError(error) ==
  IF error = "ZodError"
  THEN [kind |-> "error", http |-> 400, error |-> "Please enter a valid URL"]
  ELSE [kind |-> "error", http |-> 500, error |-> "Failed to initiate scan"]

CachedResponse(id, completedAt) ==
  [kind |-> "cached", scanId |-> id, status |-> "completed", cached |-> TRUE,
   lastScanned |-> completedAt]

\* A handler that has not answered when performScan is started.
InitiateResponseAwaited(id) == NoResp

\* The response sent right after performScan is started.

InitiateResponse(id) ==
  [kind |-> "pending", scanId |-> id, status |-> "pending", cached |-> FALSE]

\* A freshness query without its status and completed_at filters.
RecentRowsAnyStatus(url, caller, t) ==
  {s \in ScanIds :
     /\ scans[s] # NoScan
     /\ Readable(scans[s], caller)
     /\ scans[s].url = url}

\* The rows the freshness query selects for `caller` at time t: same url,
\* status completed, completed_at >= t - 15 minutes, readable under RLS.
RecentRows(url, caller, t) ==
  {s \in ScanIds :
     /\ scans[s] # NoScan
     /\ Readable(scans[s], caller)
     /\ scans[s].url = url
     /\ scans[s].status = "completed"
     /\ scans[s].completed_at # NullNum
     /\ scans[s].completed_at >= t - FreshnessWindowMinutes}

\* .order("completed_at", {ascending: false}).limit(1): the rows that may
\* come first (rows with equal completed_at come in either order).
FirstByCompletedAt(rows) ==
  {s \in rows : \A o \in rows : scans[o].completed_at <= scans[s].completed_at}

\* Parse, authenticate, run the freshness query; answer from the cache or go
\* on to create the pending record.  queryOk: the store answered the query
\* (recentScanError is set when it did not).
PostCheck(r, body, caller, queryOk) ==
  /\ req[r].pc = "new"
  /\ IF r = 1 THEN TRUE ELSE req[r - 1].pc # "new"
  /\ LET parsed == ParseScanRequest(body)
         hits == IF parsed.ok /\ queryOk
                 THEN FirstByCompletedAt(RecentRows(parsed.url, caller, now))
                 ELSE {}
     IN IF ~parsed.ok
        THEN /\ req' = [req EXCEPT ![r] = [@ EXCEPT !.pc = "done", !.body = body]]
             /\ resp' = [resp EXCEPT ![r] = InitiateError(parsed.error)]
        ELSE IF hits # {}
        THEN \E h \in hits :
               /\ req' = [req EXCEPT ![r] = [@ EXCEPT !.pc = "done", !.body = body,
                                                       !.caller = caller, !.url = parsed.url,
                                                       !.accesses = 1]]
               /\ resp' = [resp EXCEPT ![r] = CachedResponse(h, scans[h].completed_at)]
        ELSE /\ req' = [req EXCEPT ![r] = [@ EXCEPT !.pc = "create", !.body = body,
                                                     !.caller = caller, !.url = parsed.url,
                                                     !.recentScanError = ~queryOk,
                                                     !.accesses = 1]]
             /\ resp' = resp
  /\ UNCHANGED <<scans, now, nextId, extWrites, scanVars, harnessVars, sideVars, otherVars>>

\* createScan, then performScan(scanId, url) started and not awaited, then
\* the response.  insertOk: the store accepted the insert.
PostCreate(r, insertOk) ==
  /\ req[r].pc = "create"
  /\ nextId <= MaxScans
  /\ LET scanId == nextId
         scanResult == [url |-> req[r].url, status |-> "pending", createdAt |-> now,
                        userId |-> req[r].caller, score |-> UndefinedNum,
                        error |-> Undefined, completedAt |-> UndefinedNum]
     IN IF insertOk
        THEN /\ scans' = [scans EXCEPT ![scanId] = mapResultToScanInsert(scanResult)]
             /\ nextId' = nextId + 1
             /\ pc' = [pc EXCEPT ![scanId] = "launch"]
             /\ runs' = [runs EXCEPT ![scanId] = @ + 1]
             /\ req' = [req EXCEPT ![r] = [@ EXCEPT !.pc = "done", !.accesses = @ + 1,
                                                     !.scan = scanId]]
             /\ resp' = [resp EXCEPT ![r] = InitiateResponse(scanId)]
        ELSE /\ req' = [req EXCEPT ![r] = [@ EXCEPT !.pc = "done", !.accesses = @ + 1]]
             /\ resp' = [resp EXCEPT ![r] = InitiateError("Error")]
             /\ UNCHANGED <<scans, nextId, pc, runs>>
  /\ UNCHANGED <<now, extWrites, browser, caught, found, gotos, settles, loads, closes,
                 attempts, writes, escaped, harnessVars, sideVars, otherVars>>


(***************************************************************************)
(* performScan(scanId, url) (route.ts:590-634), one scan id at a time.     *)
(***************************************************************************)
GotoOutcomes == {"ok", "timeout"}

\* `Failed to load page: ${fallbackError.message}`
FailedToLoad(msg) ==
  IF msg = GotoTimeout THEN FailedToLoadPage ELSE "Failed to load page: Unknown error"

\* A navigation that tries domcontentloaded once more before giving up.
navigateRetrying(first, second) ==
  IF first = "ok" THEN [gotos |-> 1, settled |-> FALSE, threw |-> NoThrow]
  ELSE IF second = "ok" THEN [gotos |-> 2, settled |-> TRUE, threw |-> NoThrow]
  ELSE [gotos |-> 3, settled |-> FALSE, threw |-> Thrown(FailedToLoad(GotoTimeout))]

\* A navigation with the networkidle0 attempt only.
navigateWithoutFallback(first, second) ==
  IF first = "ok" THEN [gotos |-> 1, settled |-> FALSE, threw |-> NoThrow]
  ELSE [gotos |-> 2, settled |-> FALSE, threw |-> Thrown(FailedToLoad(GotoTimeout))]

\* navigateWithFallback, given how the networkidle0 and the domcontentloaded
\* page.goto end: the goto calls made, whether the 2 s settle delay ran, and
\* what is thrown.
navigateWithFallback(first, second) ==
  IF first = "ok" THEN [gotos |-> 1, settled |-> FALSE, threw |-> NoThrow]
  ELSE IF second = "ok" THEN [gotos |-> 2, settled |-> TRUE, threw |-> NoThrow]
  ELSE [gotos |-> 2, settled |-> FALSE, threw |-> Thrown(FailedToLoad(GotoTimeout))]

\* results.violations || [], results.passes || []
AxeResults(raw) ==
  Findings(IF raw.violations = UndefinedArr THEN <<>> ELSE raw.violations.items,
           IF raw.passes = UndefinedArr THEN <<>> ELSE raw.passes.items)

RawResults == {[violations |-> Arr(f.violations), passes |-> Arr(f.passes)] : f \in ScanFindings}

\* try: into the catch block with the thrown value.
Catch(s, e) ==
  /\ caught' = [caught EXCEPT ![s] = e]
  /\ pc' = [pc EXCEPT ![s] = "catch"]

\* browser = await launchBrowser()
Launch(s, ok) ==
  /\ pc[s] = "launch"
  /\ IF ok
     THEN /\ browser' = [browser EXCEPT ![s] = TRUE]
          /\ pc' = [pc EXCEPT ![s] = "page"]
          /\ UNCHANGED caught
     ELSE /\ Catch(s, Thrown(LaunchFailed))
          /\ UNCHANGED browser
  /\ UNCHANGED <<scans, now, nextId, extWrites, found, gotos, settles, loads, closes,
                 attempts, writes, escaped, runs, req, resp, harnessVars, sideVars,
                 otherVars>>

\* browser.newPage() and page.setBypassCSP(true)
OpenPage(s, ok) ==
  /\ pc[s] = "page"
  /\ IF ok
     THEN /\ pc' = [pc EXCEPT ![s] = "navigate"]
          /\ UNCHANGED caught
     ELSE Catch(s, Thrown(PageFailed))
  /\ UNCHANGED <<scans, now, nextId, extWrites, browser, found, gotos, settles, loads,
                 closes, attempts, writes, escaped, runs, req, resp, harnessVars, sideVars,
                 otherVars>>

\* await navigateWithFallback(page, url)
Navigate(s, first, second) ==
  /\ pc[s] = "navigate"
  /\ LET nav == navigateWithFallback(first, second)
     IN /\ gotos' = [gotos EXCEPT ![s] = @ + nav.gotos]
        /\ settles' = [settles EXCEPT ![s] = IF nav.settled THEN @ + 1 ELSE @]
        /\ loads' = [loads EXCEPT ![s] = @ \o (IF nav.gotos = 1 THEN <<first>>
                                                ELSE <<first, second>>)]
        /\ IF nav.threw = NoThrow
           THEN /\ pc' = [pc EXCEPT ![s] = "axe"]
                /\ UNCHANGED caught
           ELSE Catch(s, nav.threw)
  /\ UNCHANGED <<scans, now, nextId, extWrites, browser, found, closes, attempts, writes,
                 escaped, runs, req, resp, harnessVars, sideVars, otherVars>>

\* await runAxeOnPage(page, scanId): no script, axe rejecting in the page, or
\* the normalised results.
RunAxeThrows(s, msg) ==
  /\ pc[s] = "axe"
  /\ Catch(s, Thrown(msg))
  /\ UNCHANGED <<scans, now, nextId, extWrites, browser, found, gotos, settles, loads,
                 closes, attempts, writes, escaped, runs, req, resp, harnessVars, sideVars,
                 otherVars>>

RunAxeReturns(s, raw) ==
  /\ pc[s] = "axe"
  /\ found' = [found EXCEPT ![s] = AxeResults(raw)]
  /\ pc' = [pc EXCEPT ![s] = "complete"]
  /\ UNCHANGED <<scans, now, nextId, extWrites, browser, caught, gotos, settles, loads,
                 closes, attempts, writes, escaped, runs, req, resp, harnessVars, sideVars,
                 otherVars>>

\* The ScanResult fields of the two terminal writes.
CompletedResult(f, t) ==
  [NoResult EXCEPT !.status = "completed",
                   !.score = calculateAccessibilityScore(Arr(f.violations), Arr(f.passes)),
                   !.violations = Arr(f.violations),
                   !.passes = Arr(f.passes),
                   !.completedAt = t]

FailedResult(e, t) ==
  [NoResult EXCEPT !.status = "failed", !.completedAt = t, !.error = ErrorMessage(e)]

\* DatabaseService.updateScan accepts the update: the store answers and the
\* row passes the score check.
Accepted(id, update, storeOk) ==
  /\ storeOk
  /\ scans[id] = NoScan \/ ScoreCheck(UpdatedRow(scans[id], update, now))

\* calculateAccessibilityScore and the completed write, still inside try.
WriteCompleted(s, storeOk) ==
  /\ pc[s] = "complete"
  /\ attempts' = [attempts EXCEPT ![s] = @ + 1]
  /\ LET update == mapResultToScanUpdate(CompletedResult(found[s], now))
     IN IF Accepted(s, update, storeOk)
        THEN /\ scans' = DbUpdate(scans, s, update, now)
             /\ writes' = [writes EXCEPT ![s] = Append(@, "completed")]
             /\ pc' = [pc EXCEPT ![s] = "finally"]
             /\ UNCHANGED caught
        ELSE /\ Catch(s, Thrown(FailedToUpdateScan))
             /\ UNCHANGED <<scans, writes>>
  /\ UNCHANGED <<now, nextId, extWrites, browser, found, gotos, settles, loads, closes,
                 escaped, runs, req, resp, harnessVars, sideVars, otherVars>>

\* A catch block that only logs: no failed write.
WriteFailedOnlyLogs(s, storeOk) ==
  /\ pc[s] = "catch"
  /\ pc' = [pc EXCEPT ![s] = "finally"]
  /\ UNCHANGED <<scans, now, nextId, extWrites, browser, caught, found, gotos, settles,
                 loads, closes, attempts, writes, escaped, runs, req, resp, harnessVars,
                 sideVars, otherVars>>

\* A catch block that swallows the store's rejection of the failed write.
WriteFailedSwallowsStoreError(s, storeOk) ==
  /\ pc[s] = "catch"
  /\ attempts' = [attempts EXCEPT ![s] = @ + 1]
  /\ pc' = [pc EXCEPT ![s] = "finally"]
  /\ LET update == mapResultToScanUpdate(FailedResult(caught[s], now))
     IN IF Accepted(s, update, storeOk)
        THEN /\ scans' = DbUpdate(scans, s, update, now)
             /\ writes' = [writes EXCEPT ![s] = Append(@, "failed")]
        ELSE UNCHANGED <<scans, writes>>
  /\ UNCHANGED <<now, nextId, extWrites, browser, caught, found, gotos, settles, loads,
                 closes, escaped, runs, req, resp, harnessVars, sideVars, otherVars>>

\* The catch block: the failed write; if updateScan throws here the error
\* leaves performScan (after finally).
WriteFailed(s, storeOk) ==
  /\ pc[s] = "catch"
  /\ attempts' = [attempts EXCEPT ![s] = @ + 1]
  /\ pc' = [pc EXCEPT ![s] = "finally"]
  /\ LET update == mapResultToScanUpdate(FailedResult(caught[s], now))
     IN IF Accepted(s, update, storeOk)
        THEN /\ scans' = DbUpdate(scans, s, update, now)
             /\ writes' = [writes EXCEPT ![s] = Append(@, "failed")]
             /\ UNCHANGED escaped
        ELSE /\ escaped' = [escaped EXCEPT ![s] = Thrown(FailedToUpdateScan)]
             /\ UNCHANGED <<scans, writes>>
  /\ UNCHANGED <<now, nextId, extWrites, browser, caught, found, gotos, settles, loads,
                 closes, runs, req, resp, harnessVars, sideVars, otherVars>>

\* A finally block that closes without looking at `browser`.
ClosesAlways(s) == TRUE

\* A close placed after the try statement: skipped when an error is leaving.
ClosesOnlyWithoutError(s) == browser[s] /\ escaped[s] = NoThrow

\* finally { if (browser) ... }
Closes(s) == browser[s]

\* finally: browser.close() when a browser was launched (close is taken to
\* return); then the pending error, if any, leaves performScan.
Finally(s) ==
  /\ pc[s] = "finally"
  /\ pc' = [pc EXCEPT ![s] = "done"]
  /\ closes' = [closes EXCEPT ![s] = IF Closes(s) THEN @ + 1 ELSE @]
  /\ UNCHANGED <<scans, now, nextId, extWrites, browser, caught, found, gotos, settles,
                 loads, attempts, writes, escaped, runs, req, resp, harnessVars, sideVars,
                 otherVars>>


(***************************************************************************)
(* The other writers of the scans table.                                   *)
(***************************************************************************)
\* POST /api/scan/update-status with a valid body {scanId, status}.
PostUpdateStatus(s, status, storeOk) ==
  /\ extWrites < MaxExtWrites
  /\ extWrites' = extWrites + 1
  /\ LET update == mapResultToScanUpdate([NoResult EXCEPT !.status = status])
     IN scans' = IF Accepted(s, update, storeOk) THEN DbUpdate(scans, s, update, now)
                 ELSE scans
  /\ UNCHANGED <<now, nextId, scanVars, req, resp, harnessVars, sideVars, otherVars>>

\* POST /api/scan/save-results with a valid body {scanId, violations, passes}.
PostSaveResults(s, f, storeOk) ==
  /\ extWrites < MaxExtWrites
  /\ extWrites' = extWrites + 1
  /\ LET update == mapResultToScanUpdate(CompletedResult(f, now))
     IN scans' = IF Accepted(s, update, storeOk) THEN DbUpdate(scans, s, update, now)
                 ELSE scans
  /\ UNCHANGED <<now, nextId, scanVars, req, resp, harnessVars, sideVars, otherVars>>

\* A copy of the scoring function that truncates where the original rounds.
lambdaScoreTruncated(violations, passes) ==
  IF violations = UndefinedArr \/ passes = UndefinedArr THEN 0
  ELSE LET totalChecks == Len(violations.items) + Len(passes.items)
       IN IF totalChecks = 0 THEN 100
          ELSE LET weightedViolations == ReduceWeighted(violations.items, 1, 0)
                   maxPossibleScore == totalChecks * 4
                   score == MathMax(0, (100 * maxPossibleScore - 100 * weightedViolations)
                                         \div maxPossibleScore)
               IN MathMin(100, score)

\* The Lambda worker's own copy of the scoring function (utils.js).
lambdaCalculateAccessibilityScore(violations, passes) ==
  IF violations = UndefinedArr \/ passes = UndefinedArr THEN 0
  ELSE LET totalChecks == Len(violations.items) + Len(passes.items)
       IN IF totalChecks = 0 THEN 100
          ELSE LET weightedViolations == ReduceWeighted(violations.items, 1, 0)
                   maxPossibleScore == totalChecks * 4
                   score == MathMax(0, MathRound(100 * maxPossibleScore - 100 * weightedViolations,
                                                 maxPossibleScore))
               IN MathMin(100, score)

\* updateScanResults and updateScanError: the columns the worker sets.
LambdaResultsUpdate(f, t) ==
  [status |-> "completed",
   score |-> lambdaCalculateAccessibilityScore(Arr(f.violations), Arr(f.passes)),
   error |-> Undefined,
   completed_at |-> t,
   result_json |-> Findings(f.violations, f.passes)]

LambdaErrorUpdate(msg, t) ==
  [status |-> "failed", score |-> UndefinedNum, error |-> msg, completed_at |-> t,
   result_json |-> UndefinedObj]

\* The handler's response: statusCode and the JSON body.
LambdaResponse(statusCode, body) == [statusCode |-> statusCode, body |-> body]

\* {success: false, error}
LambdaFailure(msg) == [success |-> FALSE, error |-> msg]

\* A results write whose rejection reaches the handler's outer catch block.
ResultsWriteUnguarded(f, written) ==
  IF written
  THEN [response |-> LambdaResponse(200, f), calls |-> <<"updateScanResults">>]
  ELSE [response |-> LambdaResponse(500, LambdaFailure(FailedToUpdateScan)),
        calls |-> <<"updateScanResults", "updateScanError">>]

\* scanUrl returned f and a scanId was given: updateScanResults is called in
\* its own try block, whose catch only logs; the results are returned.
ResultsWrite(f, written) ==
  [response |-> LambdaResponse(200, f), calls |-> <<"updateScanResults">>]

\* One invocation of the handler with body {url, scanId}: the database
\* calls it makes and its response.  scanUrl returns f (scanned) or throws.
LambdaInvoke(url, scanId, scanned, f, written) ==
  IF url = UndefinedObj
  THEN [response |-> LambdaResponse(400, LambdaFailure("URL is required")), calls |-> <<>>]
  ELSE IF ~IsUrl(url)
  THEN [response |-> LambdaResponse(400, LambdaFailure("Invalid URL format")),
        calls |-> <<>>]
  ELSE IF scanned
  THEN IF scanId # UndefinedNum THEN ResultsWrite(f, written)
       ELSE [response |-> LambdaResponse(200, f), calls |-> <<>>]
  ELSE [response |-> LambdaResponse(500, LambdaFailure(LambdaScanFailed)),
        calls |-> IF scanId # UndefinedNum THEN <<"updateScanError">> ELSE <<>>]

\* The Lambda handler called with {url, scanId}: scanUrl returns and the
\* results are written, or scanUrl throws and the error is written.
LambdaHandler(url, scanId, scanned, f, storeOk) ==
  /\ extWrites < MaxExtWrites
  /\ extWrites' = extWrites + 1
  /\ LET update == IF scanned THEN LambdaResultsUpdate(f, now)
                   ELSE LambdaErrorUpdate(LambdaScanFailed, now)
         written == scanId # UndefinedNum /\ Accepted(scanId, update, storeOk)
         inv == LambdaInvoke(url, scanId, scanned, f, written)
     IN /\ scans' = IF inv.calls # <<>> /\ written THEN DbUpdate(scans, scanId, update, now)
                    ELSE scans
        /\ lambdaResp' = [invoked |-> TRUE, url |-> url, scanId |-> scanId,
                          scanned |-> scanned, results |-> f, written |-> written,
                          calls |-> inv.calls, response |-> inv.response]
  /\ UNCHANGED <<now, nextId, scanVars, req, resp, harnessVars, sideVars, poller,
                 rateLimitMap, rateLog, report>>

\* Time passes.
Tick ==
  /\ now + TickMinutes <= MaxTime
  /\ now' = now + TickMinutes
  /\ UNCHANGED <<scans, nextId, extWrites, scanVars, req, resp, harnessVars, sideVars,
                 otherVars>>

(***************************************************************************)
(* GET /api/scan?id= and DatabaseService.getScan.                          *)
(***************************************************************************)
FailedToFetchScan == "Failed to fetch scan: connection refused"

\* mapScanRowToResult: row.score || undefined and row.error || undefined
\* turn a falsy column (null, 0, "") into an absent field.
mapScanRowToResult(id, row) ==
  [id |-> id,
   url |-> row.url,
   status |-> row.status,
   score |-> IF row.score = NullNum \/ row.score = 0 THEN UndefinedNum ELSE row.score,
   violations |-> IF row.result_json = NullObj THEN UndefinedArr
                  ELSE Arr(row.result_json.violations),
   passes |-> IF row.result_json = NullObj THEN UndefinedArr
              ELSE Arr(row.result_json.passes),
   createdAt |-> row.created_at,
   completedAt |-> IF row.completed_at = NullNum THEN UndefinedNum ELSE row.completed_at,
   error |-> IF row.error = Null \/ row.error = "" THEN Undefined ELSE row.error,
   userId |-> row.user_id]

\* DatabaseService.getScan: the mapped row, null when no row has the id
\* (PGRST116), or the error thrown when the store fails.
getScan(table, id, fetchOk) ==
  IF ~fetchOk THEN Thrown(FailedToFetchScan)
  ELSE IF table[id] = NoScan THEN NullObj
  ELSE mapScanRowToResult(id, table[id])

\* The handler's response to a request for `id` (NullNum: no id parameter).
\* The JSON body carries the ScanResult with completedAt null when absent;
\* its other absent fields are left out of the JSON.
GetResponse(id, fetchOk) ==
  IF id = NullNum
  THEN [asked |-> id, kind |-> "error", http |-> 400, error |-> "Scan ID is required"]
  ELSE LET scanResult == getScan(scans, id, fetchOk)
       IN IF scanResult = Thrown(FailedToFetchScan)
          THEN [asked |-> id, kind |-> "error", http |-> 500,
                error |-> "Failed to retrieve scan"]
          ELSE IF scanResult = NullObj
          THEN [asked |-> id, kind |-> "error", http |-> 404, error |-> "Scan not found"]
          ELSE [asked |-> id, kind |-> "scan", http |-> 200,
                body |-> [scanResult EXCEPT
                            !.completedAt = IF @ = UndefinedNum THEN NullNum ELSE @]]

\* GET /api/scan?id=
Get(id, fetchOk) ==
  /\ got' = GetResponse(id, fetchOk)
  /\ UNCHANGED <<scans, now, nextId, extWrites, scanVars, req, resp, capture, harnessVars,
                 otherVars>>

(***************************************************************************)
(* captureViolationScreenshots (axe-core.ts:74-134): the async callbacks   *)
(* Promise.all runs for the nodes of the violations, in document order.    *)
(***************************************************************************)
\* node.target values: lists of selectors.
Targets == {<<"#a">>, <<"#b">>, <<"#a", "#b">>}

\* node.target.join(",")
RECURSIVE Join(_)
Join(target) ==
  IF target = <<>> THEN ""
  ELSE IF Len(target) = 1 THEN target[1]
  ELSE target[1] \o "," \o Join(Tail(target))

NodeLists == SeqsUpTo(Targets, MaxCaptureNodes) \ {<<>>}

\* The values of process.env.ENABLE_SCREENSHOTS.
EnvValues == {"true", "false", "1", Undefined}

\* The scanId argument of runAxeOnPage: a scan's id, or absent.
ScanIdArgs == ScanIds \cup {UndefinedNum}

\* A gate that looks at the violations only.
CaptureGateIgnoresEnv(env, scanId, violations) == violations # <<>>

\* screenshotsEnabled && scanId && violations.length > 0.  The nodes of the
\* violations are kept as one list: axe reports a violation with the nodes
\* that fail it, so the list of violations is empty exactly when this list is.
CaptureGate(env, scanId, violations) ==
  /\ env = "true"
  /\ scanId # UndefinedNum
  /\ violations # <<>>

\* A node as runAxeOnPage returns it.
ReturnedNode(target, screenshot) == [target |-> target, screenshot |-> screenshot]

\* runAxeOnPage(page, scanId) after axe.run has reported: the gate in front
\* of captureViolationScreenshots; without capture the results are returned
\* as they are.  performScan calls it with the id of its scan.
RunAxeGate(env, scanId, violations) ==
  /\ capture.axe = "idle"
  /\ scanId \in ScanIds => pc[scanId] = "axe"
  /\ capture' = [capture EXCEPT
                   !.env = env, !.scanId = scanId, !.violations = violations,
                   !.axe = IF CaptureGate(env, scanId, violations) THEN "capture"
                           ELSE "returned",
                   !.returned = IF CaptureGate(env, scanId, violations) THEN <<>>
                                ELSE [i \in 1..Len(violations) |->
                                        ReturnedNode(violations[i], FALSE)]]
  /\ UNCHANGED <<scans, now, nextId, extWrites, scanVars, req, resp, got, harnessVars,
                 otherVars>>

\* captureViolationScreenshots(page, violations, scanId) is called: an empty
\* capturedElements set, and a callback to run for every node.
CaptureCall(nodes) ==
  /\ capture.axe = "capture"
  /\ nodes = capture.violations
  /\ ~capture.started
  /\ capture' = [capture EXCEPT
                   !.axe = "capturing", !.started = TRUE, !.nodes = nodes,
                   !.cb = [i \in 1..Len(nodes) |-> "map"],
                   !.capturedElements = {}, !.shots = <<>>]
  /\ UNCHANGED <<scans, now, nextId, extWrites, scanVars, req, resp, got, harnessVars,
                 otherVars>>

\* capturedElements.has(elementId)
AlreadyCaptured(elementId) == elementId \in capture.capturedElements

\* A catch block that throws the error again.
NodeCatchRethrows(i) == "threw"

\* The catch block of the callback of node i: console.warn, and the
\* callback goes on to `return node`.
NodeCatch(i) == "returned"

\* map() invokes the callback of node i, which runs up to its first await:
\* the has() check, then page.locator(...).first() (which may throw into
\* the catch block).  The callbacks are invoked in order, one after the
\* other, before any of them is resumed.
NodeCallback(i, located) ==
  /\ capture.started
  /\ i \in 1..Len(capture.nodes)
  /\ capture.cb[i] = "map"
  /\ \A j \in 1..(i - 1) : capture.cb[j] # "map"
  /\ capture' = IF AlreadyCaptured(Join(capture.nodes[i]))
                THEN [capture EXCEPT !.cb[i] = "returned"]
                ELSE IF located
                THEN [capture EXCEPT !.cb[i] = "isVisible"]
                ELSE [capture EXCEPT !.cb[i] = NodeCatch(i),
                                     !.errors = @ \cup {i}]
  /\ UNCHANGED <<scans, now, nextId, extWrites, scanVars, req, resp, got, harnessVars,
                 otherVars>>

\* The callback of node i resumes with the outcome of element.isVisible():
\* visible (element.screenshot is called), hidden, or an error (caught).
IsVisible(i, outcome) ==
  /\ capture.started
  /\ i \in 1..Len(capture.nodes)
  /\ \A j \in 1..Len(capture.nodes) : capture.cb[j] # "map"
  /\ capture.cb[i] = "isVisible"
  /\ capture' = IF outcome = "visible"
                THEN [capture EXCEPT !.cb[i] = "screenshot"]
                ELSE IF outcome = "hidden"
                THEN [capture EXCEPT !.cb[i] = "returned"]
                ELSE [capture EXCEPT !.cb[i] = NodeCatch(i),
                                     !.errors = @ \cup {i}]
  /\ UNCHANGED <<scans, now, nextId, extWrites, scanVars, req, resp, got, harnessVars,
                 otherVars>>

\* The callback of node i resumes with the outcome of element.screenshot():
\* taken (the element is marked as captured and the node is returned with
\* its screenshot) or an error (caught).
Screenshot(i, taken) ==
  /\ capture.started
  /\ i \in 1..Len(capture.nodes)
  /\ capture.cb[i] = "screenshot"
  /\ capture' = IF taken
                THEN [capture EXCEPT
                        !.cb[i] = "returned",
                        !.shots = Append(@, Join(capture.nodes[i])),
                        !.capturedElements = @ \cup {Join(capture.nodes[i])},
                        !.withShot = @ \cup {i}]
                ELSE [capture EXCEPT !.cb[i] = NodeCatch(i),
                                     !.errors = @ \cup {i}]
  /\ UNCHANGED <<scans, now, nextId, extWrites, scanVars, req, resp, got, harnessVars,
                 otherVars>>

\* Promise.all settles: fulfilled with the nodes once every callback has
\* returned, rejected as soon as one callback has thrown; runAxeOnPage then
\* returns {violations, passes} or throws what was thrown.
CaptureSettles ==
  /\ capture.axe = "capturing"
  /\ \/ \E i \in 1..Len(capture.nodes) : capture.cb[i] = "threw"
     \/ \A i \in 1..Len(capture.nodes) : capture.cb[i] = "returned"
  /\ capture' = IF \E i \in 1..Len(capture.nodes) : capture.cb[i] = "threw"
                THEN [capture EXCEPT !.axe = "threw"]
                ELSE [capture EXCEPT
                        !.axe = "returned",
                        !.returned = [i \in 1..Len(capture.nodes) |->
                                        ReturnedNode(capture.nodes[i],
                                                     i \in capture.withShot)]]
  /\ UNCHANGED <<scans, now, nextId, extWrites, scanVars, req, resp, got, harnessVars,
                 otherVars>>

\* What performScan destructures from the value runAxeOnPage returned: the
\* violations (here one violation holding the returned nodes) and the passes.
ReturnedResults ==
  [violations |-> Arr(IF capture.returned = <<>> THEN <<>>
                      ELSE <<Violation("minor", Len(capture.returned))>>),
   passes |-> Arr(<<"pass">>)]

\* Failed to screenshot element
ScreenshotFailed == "Failed to screenshot element"

\* await runAxeOnPage(page, scanId) settles in the performScan of scan s.
RunAxeOnPageSettles(s) ==
  /\ capture.scanId = s
  /\ capture.axe \in {"returned", "threw"}
  /\ IF capture.axe = "returned" THEN RunAxeReturns(s, ReturnedResults)
     ELSE RunAxeThrows(s, ScreenshotFailed)

(***************************************************************************)
(* rateLimit (rate-limit.ts:9-51).  Times and windows are in minutes, the  *)
(* unit of the clock.                                                      *)
(***************************************************************************)
RateLimitOptions(windowMs, maxRequests) ==
  [windowMs |-> windowMs, maxRequests |-> maxRequests]

\* An entry of rateLimitMap.
Entry(count, resetTime) == [count |-> count, resetTime |-> resetTime]

\* A limit check that lets one request too many through.
LimitExceededAbove(entry, options) == entry.count > options.maxRequests

\* entry.count >= options.maxRequests
LimitExceeded(entry, options) == entry.count >= options.maxRequests

\* rateLimit(identifier, options) called at time t with the map `map`: the
\* map it leaves and the value it returns.
rateLimit(map, identifier, options, t) ==
  LET cleaned == IF map[identifier] # NoEntry /\ t > map[identifier].resetTime
                 THEN [map EXCEPT ![identifier] = NoEntry]
                 ELSE map
      entry == IF cleaned[identifier] = NoEntry
               THEN Entry(0, t + options.windowMs)
               ELSE cleaned[identifier]
  IN IF LimitExceeded(entry, options)
     THEN [map |-> [cleaned EXCEPT ![identifier] = entry],
           result |-> [success |-> FALSE, remaining |-> 0, resetTime |-> entry.resetTime]]
     ELSE [map |-> [cleaned EXCEPT ![identifier] = Entry(entry.count + 1, entry.resetTime)],
           result |-> [success |-> TRUE,
                       remaining |-> options.maxRequests - (entry.count + 1),
                       resetTime |-> entry.resetTime]]

\* The record of one call.
RateCall(identifier, options, t, returned) ==
  [identifier |-> identifier, options |-> options, at |-> t, result |-> returned]

\* An identifier is always limited with the same options.
SameOptions(identifier, options) ==
  \A i \in 1..Len(rateLog) :
    rateLog[i].identifier = identifier => rateLog[i].options = options

\* A caller calls rateLimit(identifier, options).
RateLimitCall(identifier, options) ==
  /\ Len(rateLog) < MaxRateCalls
  /\ SameOptions(identifier, options)
  /\ LET limited == rateLimit(rateLimitMap, identifier, options, now)
     IN /\ rateLimitMap' = limited.map
        /\ rateLog' = Append(rateLog, RateCall(identifier, options, now, limited.result))
  /\ UNCHANGED <<scans, now, nextId, extWrites, scanVars, req, resp, harnessVars, sideVars,
                 poller, lambdaResp, report>>

(***************************************************************************)
(* The report routes: GET /api/reports/download and POST                   *)
(* /api/reports/email, and generatePDF (pdf-generator.tsx:452-469).        *)
(***************************************************************************)
DownloadLimit == RateLimitOptions(DownloadWindowMinutes, DownloadMaxRequests)
EmailLimit == RateLimitOptions(EmailWindowMinutes, EmailMaxRequests)

\* An e-mail address: the three parts the route's regular expression
\* /^[^\s@]+@[^\s@]+\.[^\s@]+$/ wants non-empty.
Email(local, domain, tld) == [local |-> local, domain |-> domain, tld |-> tld]
Emails == {Email("user", "example", "com"), Email("user", "example", "")}
emailRegexTest(email) == email.local # "" /\ email.domain # "" /\ email.tld # ""

ScanNotFound == "Scan not found"
ScanNotCompleted == "Scan not completed"

IsThrown(x) == DOMAIN x = DOMAIN Thrown("")

\* generatePDF({scanId}): reads the scan through DatabaseService.getScan
\* (the service-role client) and renders it, or throws.
generatePDF(table, scanId, fetchOk) ==
  LET scanResult == getScan(table, scanId, fetchOk)
  IN IF IsThrown(scanResult) THEN scanResult
     ELSE IF scanResult = NullObj THEN Thrown(ScanNotFound)
     ELSE IF scanResult.status # "completed" THEN Thrown(ScanNotCompleted)
     ELSE [url |-> scanResult.url,
           score |-> IF scanResult.score = UndefinedNum THEN 0 ELSE scanResult.score,
           violations |-> IF scanResult.violations = UndefinedArr THEN <<>>
                          ELSE scanResult.violations.items,
           passes |-> IF scanResult.passes = UndefinedArr THEN <<>>
                      ELSE scanResult.passes.items]

\* supabase.from("scans").select(...).eq("id", scanId).single() with the
\* requester's session: the row when the store answers and the select
\* policy shows the row to the requester, otherwise no data.
RouteQuery(table, scanId, caller, fetchOk) ==
  IF ~fetchOk \/ table[scanId] = NoScan THEN NullObj
  ELSE IF ~Readable(table[scanId], caller) THEN NullObj
  ELSE table[scanId]

ReportError(http, error) == [kind |-> "error", http |-> http, error |-> error, pdfs |-> 0,
                             sends |-> 0]

\* A route without its status check.
StatusGateOpen(scanData) == FALSE

\* scanData.status !== "completed"
NotCompleted(scanData) == scanData.status # "completed"

\* scanData.user_id && (!user || user.id !== scanData.user_id)
NotOwner(scanData, user) ==
  scanData.user_id # Null /\ (user = Null \/ user # scanData.user_id)

\* GET /api/reports/download?scanId= once the rate limit has let it pass.
\* `caller` is the session the query runs with, `user` what
\* supabase.auth.getUser() returned.
DownloadResponse(table, scanId, caller, user, fetchOk, pdfFetchOk) ==
  IF scanId = NullNum THEN ReportError(400, "Scan ID is required")
  ELSE LET scanData == RouteQuery(table, scanId, caller, fetchOk)
       IN IF scanData = NullObj THEN ReportError(404, ScanNotFound)
          ELSE IF NotCompleted(scanData) THEN ReportError(400, "Scan is not completed yet")
          ELSE IF NotOwner(scanData, user)
          THEN ReportError(403, "Unauthorized access to this scan")
          ELSE LET pdfBuffer == generatePDF(table, scanId, pdfFetchOk)
               IN IF IsThrown(pdfBuffer)
                  THEN ReportError(500, "Failed to generate PDF report")
                  ELSE [kind |-> "pdf", http |-> 200, pdf |-> pdfBuffer, pdfs |-> 1,
                        sends |-> 0]

\* POST /api/reports/email {email, scanId} once the rate limit has let it
\* pass; resend.emails.send succeeds or returns an error.
EmailResponse(table, email, scanId, caller, fetchOk, pdfFetchOk, sendOk) ==
  IF email = UndefinedObj \/ scanId = NullNum
  THEN ReportError(400, "Email and scan ID are required")
  ELSE IF ~emailRegexTest(email) THEN ReportError(400, "Invalid email format")
  ELSE LET scanData == RouteQuery(table, scanId, caller, fetchOk)
       IN IF scanData = NullObj THEN ReportError(404, ScanNotFound)
          ELSE IF NotCompleted(scanData) THEN ReportError(400, "Scan is not completed yet")
          ELSE LET pdfBuffer == generatePDF(table, scanId, pdfFetchOk)
               IN IF IsThrown(pdfBuffer) THEN ReportError(500, "Failed to send report")
                  ELSE IF ~sendOk
                  THEN [kind |-> "error", http |-> 500, error |-> "Failed to send email",
                        pdfs |-> 1, sends |-> 0]
                  ELSE [kind |-> "sent", http |-> 200, pdf |-> pdfBuffer, pdfs |-> 1,
                        sends |-> 1]

\* A request to a report route: the rate limit first, then the route.
ReportRequest(route, identifier, options, scanId, caller, response) ==
  /\ Len(rateLog) < MaxRateCalls
  /\ LET limited == rateLimit(rateLimitMap, identifier, options, now)
     IN /\ rateLimitMap' = limited.map
        /\ rateLog' = Append(rateLog, RateCall(identifier, options, now, limited.result))
        /\ report' = [route |-> route, scanId |-> scanId, caller |-> caller,
                      limited |-> ~limited.result.success,
                      response |-> IF limited.result.success THEN response
                                   ELSE ReportError(429, "Too many requests")]
  /\ UNCHANGED <<scans, now, nextId, extWrites, scanVars, req, resp, harnessVars, sideVars,
                 poller, lambdaResp>>

ReportDownload(ip, scanId, caller, authOk, fetchOk, pdfFetchOk) ==
  ReportRequest("download", "download-" \o ip, DownloadLimit, scanId, caller,
                DownloadResponse(scans, scanId, caller, IF authOk THEN caller ELSE Null,
                                 fetchOk, pdfFetchOk))

ReportEmail(ip, email, scanId, caller, fetchOk, pdfFetchOk, sendOk) ==
  ReportRequest("email", "email-" \o ip, EmailLimit, scanId, caller,
                EmailResponse(scans, email, scanId, caller, fetchOk, pdfFetchOk, sendOk))

(***************************************************************************)
(* The ScanResults component (its useEffect with deps [scanId, result]):   *)
(* the fetches it starts, its interval and its realtime subscription.      *)
(***************************************************************************)
ScanStuck == "Scan appears to be stuck. Please try again."
ScanTimedOut == "Scan timed out. Please try again."

\* The effect runs (after the cleanup of its previous run): a fetchScan()
\* call, a realtime subscription and a new interval with pollCount = 0.
\* The fetches the previous run started stay in flight.
Effect(p) ==
  [p EXCEPT !.seen = p.result,
            !.inflightOld = p.inflightOld + p.inflight,
            !.inflight = 1,
            !.fetches = @ + 1,
            !.realtimeChannel = TRUE,
            !.pollInterval = TRUE,
            !.pollCount = 0]

\* The component is mounted for a scan that was created.
PollerMount(id) ==
  /\ ~poller.mounted
  /\ scans[id] # NoScan
  /\ poller' = Effect([mounted |-> TRUE, scanId |-> id, result |-> NullObj,
                       seen |-> NullObj, error |-> "", loading |-> TRUE,
                       pollInterval |-> FALSE, realtimeChannel |-> FALSE, pollCount |-> 0,
                       inflight |-> 0, inflightOld |-> 0, fetches |-> 0, settled |-> 0,
                       events |-> 0])
  /\ UNCHANGED <<scans, now, nextId, extWrites, scanVars, req, resp, harnessVars, sideVars,
                 lambdaResp, rateLimitMap, rateLog, report>>

\* scanAge > 120000 on a pending scan
Stale(scanResult, t) ==
  scanResult.status = "pending" /\ t - scanResult.createdAt > StaleMinutes

\* A fetchScan() call settles, one started by the current run of the effect
\* (cur) or by an earlier one.  On an error the catch block sets the error
\* and stops the interval and the subscription of the run that started the
\* fetch.  Otherwise setResult(scanResult) stores a new object, so the
\* component renders again and, `result` being a dependency, the effect is
\* cleaned up and run again.
FetchSettles(cur, fetchOk) ==
  /\ poller.mounted
  /\ IF cur THEN poller.inflight > 0 ELSE poller.inflightOld > 0
  /\ poller.settled < MaxSettled
  /\ LET p == [poller EXCEPT !.inflight = IF cur THEN @ - 1 ELSE @,
                             !.inflightOld = IF cur THEN @ ELSE @ - 1,
                             !.settled = @ + 1]
         row == scans[poller.scanId]
         scanResult == [status |-> row.status, createdAt |-> row.created_at]
     IN poller' =
          IF ~fetchOk
          THEN [p EXCEPT !.error = "Failed to fetch scan result",
                         !.loading = FALSE,
                         !.pollInterval = IF cur THEN FALSE ELSE @,
                         !.realtimeChannel = IF cur THEN FALSE ELSE @]
          ELSE Effect([p EXCEPT
                         !.result = scanResult,
                         !.loading = IF scanResult.status # "pending" \/ Stale(scanResult, now)
                                     THEN FALSE ELSE @,
                         !.error = IF Stale(scanResult, now) THEN ScanStuck ELSE @])
  /\ UNCHANGED <<scans, now, nextId, extWrites, scanVars, req, resp, harnessVars, sideVars,
                 lambdaResp, rateLimitMap, rateLog, report>>

\* The interval fires, 3 seconds after the last time: the 40th firing
\* gives up; before that it fetches while the `result` the effect saw is
\* absent or pending, and stops otherwise.
IntervalFires ==
  /\ poller.mounted
  /\ poller.pollInterval
  /\ poller' =
       IF poller.pollCount + 1 >= maxPolls
       THEN [poller EXCEPT !.pollCount = @ + 1, !.error = ScanTimedOut,
                           !.loading = FALSE, !.pollInterval = FALSE]
       ELSE IF poller.seen = NullObj \/ poller.seen.status = "pending"
       THEN [poller EXCEPT !.pollCount = @ + 1, !.inflight = @ + 1, !.fetches = @ + 1]
       ELSE [poller EXCEPT !.pollCount = @ + 1, !.pollInterval = FALSE]
  /\ UNCHANGED <<scans, now, nextId, extWrites, scanVars, req, resp, harnessVars, sideVars,
                 lambdaResp, rateLimitMap, rateLog, report>>

\* The realtime channel delivers an UPDATE of the scan's row: fetchScan().
RealtimeEvent ==
  /\ poller.mounted
  /\ poller.realtimeChannel
  /\ poller.events < Len(writes[poller.scanId])
  /\ poller' = [poller EXCEPT !.events = @ + 1, !.inflight = @ + 1, !.fetches = @ + 1]
  /\ UNCHANGED <<scans, now, nextId, extWrites, scanVars, req, resp, harnessVars, sideVars,
                 lambdaResp, rateLimitMap, rateLog, report>>

(***************************************************************************)
(* Spec: the execution path.  Anonymous callers scan one URL; the browser, *)
(* the rule engine and the store may fail at every step; the other writers *)
(* of the table run alongside.  The clock stands still.                    *)
(***************************************************************************)
ExecBodies == {[url |-> UrlA], NotJson}

Next ==
  \/ \E r \in ReqIds, body \in ExecBodies, queryOk \in BOOLEAN :
       PostCheck(r, body, Null, queryOk)
  \/ \E r \in ReqIds, insertOk \in BOOLEAN : PostCreate(r, insertOk)
  \/ \E s \in ScanIds, ok \in BOOLEAN : Launch(s, ok)
  \/ \E s \in ScanIds, ok \in BOOLEAN : OpenPage(s, ok)
  \/ \E s \in ScanIds, first \in GotoOutcomes, second \in GotoOutcomes :
       Navigate(s, first, second)
  \/ \E s \in ScanIds, msg \in {NoAxeScript, AxeRejected} : RunAxeThrows(s, msg)
  \/ \E s \in ScanIds, raw \in RawResults : RunAxeReturns(s, raw)
  \/ \E s \in ScanIds, storeOk \in BOOLEAN : WriteCompleted(s, storeOk)
  \/ \E s \in ScanIds, storeOk \in BOOLEAN : WriteFailed(s, storeOk)
  \/ \E s \in ScanIds : Finally(s)
  \/ \E s \in ScanIds, status \in Statuses, storeOk \in BOOLEAN :
       PostUpdateStatus(s, status, storeOk)
  \/ \E s \in ScanIds, f \in ScanFindings, storeOk \in BOOLEAN :
       PostSaveResults(s, f, storeOk)
  \/ \E s \in ScanIds, scanned \in BOOLEAN, f \in ScanFindings, storeOk \in BOOLEAN :
       LambdaHandler(UrlA, s, scanned, f, storeOk)

Spec == Init /\ [][Next]_vars

(***************************************************************************)
(* SpecInitiate: the initiation path.  Any caller posts any body for       *)
(* either URL while time passes; a scan either completes (on a clean page  *)
(* or on the page with one critical violation and ten passes) or fails in  *)
(* navigation; the store answers.                                          *)
(***************************************************************************)
NextInitiate ==
  \/ \E r \in ReqIds, body \in Bodies, caller \in Callers, queryOk \in BOOLEAN :
       PostCheck(r, body, caller, queryOk)
  \/ \E r \in ReqIds, insertOk \in BOOLEAN : PostCreate(r, insertOk)
  \/ \E s \in ScanIds : Launch(s, TRUE)
  \/ \E s \in ScanIds : OpenPage(s, TRUE)
  \/ \E s \in ScanIds, first \in GotoOutcomes : Navigate(s, first, "timeout")
  \/ \E s \in ScanIds, f \in {CleanPage, ExamplePage} :
       RunAxeReturns(s, [violations |-> Arr(f.violations), passes |-> Arr(f.passes)])
  \/ \E s \in ScanIds : WriteCompleted(s, TRUE)
  \/ \E s \in ScanIds : WriteFailed(s, TRUE)
  \/ \E s \in ScanIds : Finally(s)
  \/ Tick

SpecInitiate == Init /\ [][NextInitiate]_vars


(***************************************************************************)
(* SpecRead: anonymous scans of one URL that complete (on a clean page or  *)
(* on a page scoring 0) or fail at launch, the store answering every       *)
(* write, while GET /api/scan?id= is asked for every id.                   *)
(***************************************************************************)
NextRead ==
  \/ \E r \in ReqIds : PostCheck(r, [url |-> UrlA], Null, TRUE)
  \/ \E r \in ReqIds : PostCreate(r, TRUE)
  \/ \E s \in ScanIds, ok \in BOOLEAN : Launch(s, ok)
  \/ \E s \in ScanIds : OpenPage(s, TRUE)
  \/ \E s \in ScanIds : Navigate(s, "ok", "ok")
  \/ \E s \in ScanIds, raw \in RawResults : RunAxeReturns(s, raw)
  \/ \E s \in ScanIds : WriteCompleted(s, TRUE)
  \/ \E s \in ScanIds : WriteFailed(s, TRUE)
  \/ \E s \in ScanIds : Finally(s)
  \/ \E id \in ScanIds \cup {NullNum}, fetchOk \in BOOLEAN : Get(id, fetchOk)

SpecRead == Init /\ [][NextRead]_vars

(***************************************************************************)
(* SpecCapture: one anonymous scan whose page loads, with runAxeOnPage     *)
(* called under every value of ENABLE_SCREENSHOTS, with the scan's id or   *)
(* with none, for every list of up to MaxCaptureNodes violation nodes, and *)
(* one run of captureViolationScreenshots under every interleaving of its  *)
(* callbacks; the store may reject the completed write.                    *)
(***************************************************************************)
NextCapture ==
  \/ PostCheck(1, [url |-> UrlA], Null, TRUE)
  \/ PostCreate(1, TRUE)
  \/ \E s \in ScanIds : Launch(s, TRUE)
  \/ \E s \in ScanIds : OpenPage(s, TRUE)
  \/ \E s \in ScanIds : Navigate(s, "ok", "ok")
  \/ \E env \in EnvValues, scanId \in ScanIdArgs, violations \in NodeLists \cup {<<>>} :
       RunAxeGate(env, scanId, violations)
  \/ \E nodes \in NodeLists : CaptureCall(nodes)
  \/ \E i \in 1..MaxCaptureNodes, located \in BOOLEAN : NodeCallback(i, located)
  \/ \E i \in 1..MaxCaptureNodes, outcome \in {"visible", "hidden", "throws"} :
       IsVisible(i, outcome)
  \/ \E i \in 1..MaxCaptureNodes, taken \in BOOLEAN : Screenshot(i, taken)
  \/ CaptureSettles
  \/ \E s \in ScanIds : RunAxeOnPageSettles(s)
  \/ \E s \in ScanIds, storeOk \in BOOLEAN : WriteCompleted(s, storeOk)
  \/ \E s \in ScanIds : WriteFailed(s, TRUE)
  \/ \E s \in ScanIds : Finally(s)

SpecCapture == Init /\ [][NextCapture]_vars

(***************************************************************************)
(* SpecLambda: anonymous scans of one URL run by performScan while the     *)
(* Lambda handler is invoked with every body: with or without a url, with  *)
(* a malformed url, with the id of a scan or without a scanId; scanUrl     *)
(* returns or throws, and the store accepts or rejects the handler's write.*)
(***************************************************************************)
LambdaUrls == {UrlA, UndefinedObj} \cup BadUrls

NextLambda ==
  \/ \E r \in ReqIds : PostCheck(r, [url |-> UrlA], Null, TRUE)
  \/ \E r \in ReqIds : PostCreate(r, TRUE)
  \/ \E s \in ScanIds, ok \in BOOLEAN : Launch(s, ok)
  \/ \E s \in ScanIds : OpenPage(s, TRUE)
  \/ \E s \in ScanIds : Navigate(s, "ok", "ok")
  \/ \E s \in ScanIds, raw \in RawResults : RunAxeReturns(s, raw)
  \/ \E s \in ScanIds : WriteCompleted(s, TRUE)
  \/ \E s \in ScanIds : WriteFailed(s, TRUE)
  \/ \E s \in ScanIds : Finally(s)
  \/ \E url \in LambdaUrls, scanId \in ScanIdArgs, scanned \in BOOLEAN,
        f \in ScanFindings, storeOk \in BOOLEAN :
       LambdaHandler(url, scanId, scanned, f, storeOk)

SpecLambda == Init /\ [][NextLambda]_vars

(***************************************************************************)
(* SpecLive: anonymous scans of one URL where the store accepts every      *)
(* insert and write and the browser and the rule engine may fail at every  *)
(* step.  Every awaited step of a running performScan eventually returns   *)
(* or throws: weak fairness on the steps of each scan.                     *)
(***************************************************************************)
PerformScanStep(s) ==
  \/ \E ok \in BOOLEAN : Launch(s, ok)
  \/ \E ok \in BOOLEAN : OpenPage(s, ok)
  \/ \E first \in GotoOutcomes, second \in GotoOutcomes : Navigate(s, first, second)
  \/ \E msg \in {NoAxeScript, AxeRejected} : RunAxeThrows(s, msg)
  \/ \E raw \in RawResults : RunAxeReturns(s, raw)
  \/ WriteCompleted(s, TRUE)
  \/ WriteFailed(s, TRUE)
  \/ Finally(s)

NextLive ==
  \/ \E r \in ReqIds : PostCheck(r, [url |-> UrlA], Null, TRUE)
  \/ \E r \in ReqIds : PostCreate(r, TRUE)
  \/ \E s \in ScanIds : PerformScanStep(s)

SpecLive ==
  /\ Init
  /\ [][NextLive]_vars
  /\ \A s \in ScanIds : WF_vars(PerformScanStep(s))

(***************************************************************************)
(* SpecRate: rateLimit called for two identifiers, each with its own       *)
(* options (a window of 5 or 10 minutes, 1 or 2 requests), while time      *)
(* passes.                                                                 *)
(***************************************************************************)
RateIdentifiers == {"download-unknown", "email-unknown"}
RateOptionValues == {RateLimitOptions(w, m) : w \in {5, 10}, m \in {1, 2}}

NextRate ==
  \/ \E identifier \in RateIdentifiers, options \in RateOptionValues :
       RateLimitCall(identifier, options)
  \/ Tick

SpecRate == Init /\ [][NextRate]_vars

(***************************************************************************)
(* SpecReport: one scan, anonymous or owned, that completes or fails at    *)
(* launch, while both report routes are asked for it (before and after it  *)
(* exists) by every requester; the store, the auth service and the mail    *)
(* service may fail.                                                       *)
(***************************************************************************)
NextReport ==
  \/ \E caller \in {Null, "alice"} : PostCheck(1, [url |-> UrlA], caller, TRUE)
  \/ PostCreate(1, TRUE)
  \/ \E s \in ScanIds, ok \in BOOLEAN : Launch(s, ok)
  \/ \E s \in ScanIds : OpenPage(s, TRUE)
  \/ \E s \in ScanIds : Navigate(s, "ok", "ok")
  \/ \E s \in ScanIds :
       RunAxeReturns(s, [violations |-> Arr(CleanPage.violations),
                         passes |-> Arr(CleanPage.passes)])
  \/ \E s \in ScanIds : WriteCompleted(s, TRUE)
  \/ \E s \in ScanIds : WriteFailed(s, TRUE)
  \/ \E s \in ScanIds : Finally(s)
  \/ \E scanId \in {1, NullNum}, caller \in Callers,
        authOk \in BOOLEAN, fetchOk \in BOOLEAN, pdfFetchOk \in BOOLEAN :
       ReportDownload("unknown", scanId, caller, authOk, fetchOk, pdfFetchOk)
  \/ \E email \in Emails \cup {UndefinedObj}, scanId \in {1, NullNum},
        caller \in Callers, fetchOk \in BOOLEAN, pdfFetchOk \in BOOLEAN,
        sendOk \in BOOLEAN :
       ReportEmail("unknown", email, scanId, caller, fetchOk, pdfFetchOk, sendOk)

SpecReport == Init /\ [][NextReport]_vars

(***************************************************************************)
(* SpecPoll: one anonymous scan that completes or fails at launch while    *)
(* time passes and the ScanResults component, mounted for it, fetches,     *)
(* polls and listens; a fetch may fail.                                    *)
(***************************************************************************)
NextPoll ==
  \/ PostCheck(1, [url |-> UrlA], Null, TRUE)
  \/ PostCreate(1, TRUE)
  \/ \E s \in ScanIds, ok \in BOOLEAN : Launch(s, ok)
  \/ \E s \in ScanIds : OpenPage(s, TRUE)
  \/ \E s \in ScanIds : Navigate(s, "ok", "ok")
  \/ \E s \in ScanIds :
       RunAxeReturns(s, [violations |-> Arr(CleanPage.violations),
                         passes |-> Arr(CleanPage.passes)])
  \/ \E s \in ScanIds : WriteCompleted(s, TRUE)
  \/ \E s \in ScanIds : WriteFailed(s, TRUE)
  \/ \E s \in ScanIds : Finally(s)
  \/ Tick
  \/ \E id \in ScanIds : PollerMount(id)
  \/ \E cur \in BOOLEAN, fetchOk \in BOOLEAN : FetchSettles(cur, fetchOk)
  \/ IntervalFires
  \/ RealtimeEvent

SpecPoll == Init /\ [][NextPoll]_vars

(***************************************************************************)
(* SpecScore: calculateAccessibilityScore applied to every pair of         *)
(* arguments within the bounds, an absent argument included.               *)
(***************************************************************************)
ScoreArgs ==
  {[violations |-> v, passes |-> p] :
     v \in {UndefinedArr} \cup {Arr(x) : x \in ViolationLists},
     p \in {UndefinedArr} \cup {Arr(x) : x \in PassLists}}

ScoreInit ==
  /\ Init!1 /\ Init!2 /\ Init!3 /\ Init!4 /\ Init!5 /\ Init!6 /\ Init!7 /\ Init!8
  /\ Init!9 /\ Init!10 /\ Init!11 /\ Init!12 /\ Init!13 /\ Init!14 /\ Init!15 /\ Init!16
  /\ Init!17 /\ Init!18 /\ Init!19 /\ Init!20
  /\ Init!23 /\ Init!24 /\ Init!25 /\ Init!26 /\ Init!27
  /\ args \in ScoreArgs
  /\ result = NullNum

ScoreCall ==
  /\ result = NullNum
  /\ result' = calculateAccessibilityScore(args.violations, args.passes)
  /\ UNCHANGED <<scans, now, nextId, extWrites, scanVars, req, resp, sideVars, args,
                 otherVars>>

SpecScore == ScoreInit /\ [][ScoreCall]_vars

(***************************************************************************)
(* Claims.                                                                 *)
(***************************************************************************)

\* The reference scoring law, stated on its own: the penalty P, and the
\* integer nearest to 100 - 100 P / (4 n) (a tie going up), clamped.
RefWeight(impact) ==
  CASE impact = "critical" -> 4
    [] impact = "serious" -> 3
    [] impact = "moderate" -> 2
    [] impact = "minor" -> 1

RefNodeCount(v) == IF v.nodes = UndefinedNum THEN 0 ELSE v.nodes

RECURSIVE RefPenalty(_)
RefPenalty(vs) ==
  IF vs = <<>> THEN 0
  ELSE RefWeight(Head(vs).impact) * MathMax(1, RefNodeCount(Head(vs))) + RefPenalty(Tail(vs))

RefScore(violations, passes) ==
  IF violations = UndefinedArr \/ passes = UndefinedArr THEN 0
  ELSE IF violations.items = <<>> /\ passes.items = <<>> THEN 100
  ELSE LET den == (Len(violations.items) + Len(passes.items)) * 4
           num == 100 * den - 100 * RefPenalty(violations.items)
       IN IF num <= 0 THEN 0
          ELSE CHOOSE k \in 0..100 : 2 * k * den - 2 * num <= den /\ 2 * num - 2 * k * den < den

\* C10: for every input, calculateAccessibilityScore returns the value of
\* the reference scoring law: 0 when an argument is absent, 100 when both
\* lists are empty, otherwise round(100 - 100 P / ((|violations| + |passes|) * 4))
\* clamped to 0..100, P summing weight(impact) * max(1, nodes) over the
\* violations.
C10_ScoreIsReferenceLaw ==
  result # NullNum => result = RefScore(args.violations, args.passes)

\* C10 witness: a score that needed the rounding of a tie (87.5 -> 88): one
\* minor violation on one node beside one pass.
C10_Witness ==
  /\ result = 88
  /\ args.violations = Arr(<<Violation("minor", 1)>>)
  /\ args.passes = Arr(<<"pass">>)

Terminal == {"completed", "failed"}

\* C1: a record's status only moves pending -> completed or pending ->
\* failed, and once it is completed or failed no operation changes its
\* status, score, error or findings.
C1_TerminalIsFinal ==
  [][\A s \in ScanIds :
       (scans[s] # NoScan /\ scans[s].status \in Terminal) =>
         /\ scans'[s].status = scans[s].status
         /\ scans'[s].score = scans[s].score
         /\ scans'[s].error = scans[s].error
         /\ scans'[s].result_json = scans[s].result_json]_vars

\* C2: in every state of the store, a record is completed exactly when it
\* has a score and failed exactly when it has an error (so a pending record
\* has neither).
C2_StatusMatchesFields ==
  \A s \in ScanIds :
    scans[s] # NoScan =>
      /\ scans[s].status = "completed" <=> scans[s].score # NullNum
      /\ scans[s].status = "failed" <=> scans[s].error # Null

\* C3 as stated: every finished performScan has made exactly one terminal
\* write, whichever step failed, persistence included; and performScan runs
\* at most once per scan id.
C3_ExactlyOneTerminalWrite ==
  \A s \in ScanIds :
    /\ runs[s] <= 1
    /\ Len(writes[s]) <= 1
    /\ pc[s] = "done" => Len(writes[s]) = 1

\* C3 amended: performScan runs at most once per scan id and never makes
\* two terminal writes; a finished performScan has made exactly one unless
\* the store rejected the failed write of its catch block, in which case it
\* has made none and that store error has left performScan.
C3_OneTerminalWriteUnlessStoreRejects ==
  \A s \in ScanIds :
    /\ runs[s] <= 1
    /\ Len(writes[s]) <= 1
    /\ pc[s] = "done" =>
         \/ Len(writes[s]) = 1 /\ escaped[s] = NoThrow
         \/ Len(writes[s]) = 0 /\ escaped[s] = Thrown(FailedToUpdateScan)

\* C3 witness: the completed write was rejected, the catch block's failed
\* write was accepted: two attempts, one terminal write.
C3_Witness ==
  \E s \in ScanIds :
    /\ pc[s] = "done"
    /\ caught[s] = Thrown(FailedToUpdateScan)
    /\ attempts[s] = 2
    /\ writes[s] = <<"failed">>

\* C4: once the browser was launched, browser.close() is called exactly
\* once, after the terminal write attempt, on every exit path of performScan
\* (and never without a browser).
C4_ClosedExactlyOnce ==
  \A s \in ScanIds :
    /\ closes[s] <= 1
    /\ closes[s] > 0 => browser[s] /\ attempts[s] >= 1 /\ pc[s] = "done"
    /\ pc[s] = "done" /\ browser[s] => closes[s] = 1

\* C4 witness: the store rejected both writes, the error is leaving
\* performScan, and the browser was closed once.
C4_Witness ==
  \E s \in ScanIds :
    /\ pc[s] = "done"
    /\ browser[s]
    /\ attempts[s] = 2
    /\ writes[s] = <<>>
    /\ escaped[s] # NoThrow
    /\ closes[s] = 1

\* The completed scans of `url` whose completed_at lies within the trailing
\* freshness window at time t, and whether `caller` may read a record.
FreshCompleted(url, t) ==
  {s \in ScanIds :
     /\ scans[s] # NoScan
     /\ scans[s].url = url
     /\ scans[s].status = "completed"
     /\ scans[s].completed_at # NullNum
     /\ t - scans[s].completed_at <= FreshnessWindowMinutes}

VisibleTo(s, caller) == scans[s].user_id = Null \/ scans[s].user_id = caller

\* Steps of POST /api/scan for request r: the freshness decision on a
\* well-formed body, and the creation that follows a miss.
CheckStep(r) == req[r].pc = "new" /\ req'[r].pc # "new" /\ req'[r].url # UndefinedObj
CreateStep(r) == req[r].pc = "create" /\ req'[r].pc = "done"

\* The step answers {cached: true} with a most recently completed record of
\* `fresh`, creates nothing and schedules nothing.
AnswersFromCache(r, fresh) ==
  /\ req'[r].pc = "done"
  /\ resp'[r].kind = "cached"
  /\ resp'[r].cached = TRUE
  /\ resp'[r].scanId \in fresh
  /\ \A o \in fresh : scans[o].completed_at <= scans[resp'[r].scanId].completed_at
  /\ resp'[r].lastScanned = scans[resp'[r].scanId].completed_at
  /\ scans' = scans
  /\ runs' = runs

\* The step creates exactly one pending record of the request's url,
\* schedules one performScan for it and answers {cached: false}.
CreatesOnePending(r) ==
  /\ resp'[r].kind = "pending"
  /\ resp'[r].cached = FALSE
  /\ \E s \in ScanIds :
       /\ resp'[r].scanId = s
       /\ scans[s] = NoScan
       /\ scans'[s] # NoScan
       /\ scans'[s].status = "pending"
       /\ scans'[s].url = req[r].url
       /\ runs'[s] = runs[s] + 1
       /\ \A o \in ScanIds \ {s} : scans'[o] = scans[o] /\ runs'[o] = runs[o]

C6_EveryFailureRecorded ==
  [][\A s \in ScanIds :
       (pc[s] = "catch" /\ pc'[s] # "catch") =>
         /\ scans'[s].status = "failed"
         /\ scans'[s].error = caught[s].message
         /\ escaped'[s] = NoThrow]_vars

\* C6 amended: every failure of launch, navigation, rule run, scoring or the
\* completed write enters the catch block; the catch block writes status
\* failed with the failure's message and nothing leaves performScan, unless
\* the store rejects that write too: then the record is left as it was and
\* the store's error leaves performScan.  Nothing else leaves performScan.
C6_FailureRecordedUnlessStoreRejects ==
  [][\A s \in ScanIds :
       /\ caught'[s] # caught[s] => pc[s] \notin {"catch", "finally", "done"} /\ pc'[s] = "catch"
       /\ (pc[s] = "catch" /\ pc'[s] # "catch") =>
            \/ /\ scans'[s].status = "failed"
               /\ scans'[s].error = caught[s].message
               /\ escaped'[s] = NoThrow
            \/ /\ scans' = scans
               /\ escaped'[s] = Thrown(FailedToUpdateScan)
       /\ escaped'[s] # escaped[s] => pc[s] = "catch"]_vars

\* C6 witness: the completed write was rejected by the store and the catch
\* block recorded that failure: the record is failed with the store's
\* message, nothing has left performScan.
C6_Witness ==
  \E s \in ScanIds :
    /\ pc[s] = "done"
    /\ caught[s] = Thrown(FailedToUpdateScan)
    /\ scans[s].status = "failed"
    /\ scans[s].error = FailedToUpdateScan
    /\ escaped[s] = NoThrow

\* C7: the handler answers {scanId, status: pending, cached: false} in the
\* step that persists the pending record, while that scan's performScan has
\* only been started; and a response, once sent, is never changed by
\* whatever performScan does afterwards (completion, failure, an escaping
\* error).
C7_ResponseIndependentOfPerformScan ==
  [][\A r \in ReqIds :
       /\ \A s \in ScanIds :
            (scans[s] = NoScan /\ scans'[s] # NoScan /\ req'[r].scan = s) =>
              /\ resp'[r] = [kind |-> "pending", scanId |-> s, status |-> "pending",
                             cached |-> FALSE]
              /\ req'[r].pc = "done"
              /\ pc'[s] = "launch"
              /\ scans'[s].status = "pending"
       /\ resp[r] # NoResp => resp'[r] = resp[r] /\ req'[r] = req[r]]_vars

\* C7 witness: the scan's performScan ended with an error leaving it (both
\* writes rejected), and the request that started it holds its pending
\* response.
C7_Witness ==
  \E r \in ReqIds, s \in ScanIds :
    /\ req[r].scan = s
    /\ pc[s] = "done"
    /\ escaped[s] # NoThrow
    /\ resp[r].kind = "pending"
    /\ resp[r].scanId = s

\* C8 as stated, for records no other writer has touched: completed_at is
\* set exactly when the status is completed or failed.
C8_CompletedAtIffTerminal ==
  extWrites = 0 =>
    \A s \in ScanIds :
      scans[s] # NoScan =>
        (scans[s].completed_at # NullNum <=> scans[s].status \in Terminal)

\* A url value that is a string with a scheme and a host.
WellFormed(u) == u.isString /\ u.scheme # "" /\ u.host # ""

\* C9: a request whose body carries an ill-formed url is answered with an
\* error (400) in the step that parses it, before any store access: no
\* record is created or changed, no performScan is scheduled.
C9_InvalidUrlRejectedFirst ==
  [][\A r \in ReqIds, body \in Bodies \ {NotJson} :
       (req[r].pc = "new" /\ req'[r].pc # "new" /\ req'[r].body = body
          /\ ~WellFormed(body.url)) =>
         /\ req'[r].pc = "done"
         /\ resp'[r].kind = "error"
         /\ resp'[r].http = 400
         /\ req'[r].accesses = 0
         /\ scans' = scans
         /\ runs' = runs
         /\ pc' = pc
         /\ nextId' = nextId]_vars

\* C9 witness: a request with an ill-formed url was answered 400 without a
\* store access while a record of an earlier scan exists.
C9_Witness ==
  \E r \in ReqIds :
    /\ req[r].pc = "done"
    /\ req[r].body \in {[url |-> u] : u \in BadUrls}
    /\ resp[r].kind = "error"
    /\ resp[r].http = 400
    /\ req[r].accesses = 0
    /\ \E s \in ScanIds : scans[s] # NoScan

\* C11: whatever the violations and passes, the penalty exceeding the
\* maximum possible penalty included, calculateAccessibilityScore returns an
\* integer between 0 and 100, a value the store's CHECK on score accepts.
C11_ScoreWithinBounds ==
  result # NullNum =>
    /\ result \in 0..100
    /\ ScoreCheck([score |-> result])

\* C11 witness: one critical violation on MaxNodes nodes and no pass: the
\* penalty (12) exceeds the maximum possible penalty (4) and the score is 0.
C11_Witness ==
  /\ result = 0
  /\ args.violations = Arr(<<Violation("critical", MaxNodes)>>)
  /\ args.passes = Arr(<<>>)
  /\ RefPenalty(args.violations.items) > 4 * Len(args.violations.items)

\* C13: for every input the Lambda worker's copy of the scoring function
\* returns what the application's calculateAccessibilityScore returned.
C13_LambdaScoreIsAppScore ==
  result # NullNum =>
    lambdaCalculateAccessibilityScore(args.violations, args.passes) = result

\* C13 witness: both copies score one minor violation on one node beside an
\* absent-nodes moderate one at 63 (62.5 rounded up).
C13_Witness ==
  /\ result = 63
  /\ args.violations = Arr(<<Violation("minor", 1), Violation("moderate", UndefinedNum)>>)
  /\ args.passes = Arr(<<>>)
  /\ lambdaCalculateAccessibilityScore(args.violations, args.passes) = 63

\* The node counts a violation may carry.
NodeCounts == (0..MaxNodes) \cup {UndefinedNum}

\* C14: for every input and every critical violation c, the score of the
\* violations with c appended is at most the score of the violations.
C14_CriticalNeverRaisesScore ==
  (result # NullNum /\ args.violations # UndefinedArr /\ args.passes # UndefinedArr) =>
    \A n \in NodeCounts :
      calculateAccessibilityScore(
        Arr(Append(args.violations.items, Violation("critical", n))), args.passes) <= result

\* C14 witness: a page with one pass and no violation scores 100; with a
\* critical violation on one node added it scores 50.
C14_Witness ==
  /\ result = 100
  /\ args.violations = Arr(<<>>)
  /\ args.passes = Arr(<<"pass">>)
  /\ calculateAccessibilityScore(Arr(<<Violation("critical", 1)>>), args.passes) = 50

\* The score of the input with its single violation's impact replaced.
ScoreWithImpact(impact) ==
  calculateAccessibilityScore(
    Arr(<<Violation(impact, args.violations.items[1].nodes)>>), args.passes)

\* C15: for a single-violation input, whatever its nodes and passes, the
\* scores with the impact set to critical, serious, moderate and minor are
\* in non-decreasing order.
C15_SeverityOrdering ==
  (result # NullNum /\ args.violations # UndefinedArr /\ args.passes # UndefinedArr
     /\ Len(args.violations.items) = 1) =>
    /\ ScoreWithImpact("critical") <= ScoreWithImpact("serious")
    /\ ScoreWithImpact("serious") <= ScoreWithImpact("moderate")
    /\ ScoreWithImpact("moderate") <= ScoreWithImpact("minor")
    /\ result = ScoreWithImpact(args.violations.items[1].impact)

\* C15 witness: one serious violation on one node beside one pass scores 63,
\* strictly between the critical (50) and the moderate (75) score.
C15_Witness ==
  /\ result = 63
  /\ args.violations = Arr(<<Violation("serious", 1)>>)
  /\ args.passes = Arr(<<"pass">>)
  /\ ScoreWithImpact("critical") = 50
  /\ ScoreWithImpact("moderate") = 75
  /\ ScoreWithImpact("minor") = 88

\* The scans whose rule run reported exactly one critical violation on 2
\* nodes and 10 passes and whose performScan has left its try block.
ExampleScanned ==
  {s \in ScanIds :
     /\ found[s] # NullObj
     /\ Len(found[s].violations) = 1
     /\ found[s].violations[1] = Violation("critical", 2)
     /\ Len(found[s].passes) = 10
     /\ pc[s] \in {"finally", "done"}}

\* C12 as stated: such a scan ends with status completed and score 27.
C12_ExampleScores27 ==
  \A s \in ExampleScanned : scans[s].status = "completed" /\ scans[s].score = 27

\* C12 amended: such a scan ends with status completed, its findings
\* stored, and score 82 = round(100 - 100 * (4 * 2) / ((1 + 10) * 4)).
C12_ExampleScores82 ==
  \A s \in ExampleScanned :
    /\ scans[s].status = "completed"
    /\ scans[s].score = 82
    /\ scans[s].result_json = found[s]

\* C12 witness: performScan is over for such a scan and the record is
\* completed with score 82.
C12_Witness ==
  \E s \in ScanIds :
    /\ pc[s] = "done"
    /\ found[s] = ExamplePage
    /\ writes[s] = <<"completed">>
    /\ scans[s].status = "completed"
    /\ scans[s].score = 82

\* C16: when the networkidle0 page.goto fails and the domcontentloaded
\* page.goto then succeeds, navigateWithFallback waits the settle delay and
\* returns: performScan goes on to the rule run, nothing is caught, no
\* record is written by this step, and no navigation failure is ever
\* recorded for that scan.
C16_FallbackNavigationSucceeds ==
  [][\A s \in ScanIds :
       /\ (pc[s] = "navigate" /\ loads'[s] = <<"timeout", "ok">>) =>
            /\ pc'[s] = "axe"
            /\ gotos'[s] = gotos[s] + 2
            /\ settles'[s] = settles[s] + 1
            /\ caught'[s] = NoThrow
            /\ scans' = scans
       /\ loads[s] = <<"timeout", "ok">> =>
            /\ loads'[s] = loads[s]
            /\ caught'[s] # Thrown(FailedToLoadPage)]_vars

\* C16 witness: a scan whose first goto timed out and whose second goto
\* succeeded went through the rule run and is completed.
C16_Witness ==
  \E s \in ScanIds :
    /\ loads[s] = <<"timeout", "ok">>
    /\ settles[s] = 1
    /\ pc[s] = "done"
    /\ found[s] # NullObj
    /\ writes[s] = <<"completed">>

\* C17: a GET changes no record; for an id without a record it answers
\* not found; for a completed record it answers status completed with the
\* stored score, whatever that score (a store failure apart, answered 500).
C17_ReadReturnsStoredScore ==
  [][got' # got =>
       /\ scans' = scans
       /\ (got'.asked \in ScanIds /\ got'.http # 500) =>
            IF scans[got'.asked] = NoScan THEN got'.http = 404
            ELSE /\ got'.http = 200
                 /\ got'.body.status = scans[got'.asked].status
                 /\ scans[got'.asked].status = "completed" =>
                      got'.body.score = scans[got'.asked].score]_vars

\* C18: within one run of captureViolationScreenshots, under every
\* interleaving of the callbacks, at most one screenshot is taken per
\* target-selector key.
C18_OneScreenshotPerKey ==
  \A i, j \in 1..Len(capture.shots) :
    capture.shots[i] = capture.shots[j] => i = j

\* The invariants of a scan record: a score exactly when completed, a
\* completion time exactly when completed or failed, an error only when
\* failed.
RecordInvariants(row) ==
  /\ row.score # NullNum <=> row.status = "completed"
  /\ row.completed_at # NullNum <=> row.status \in Terminal
  /\ row.error # Null => row.status = "failed"

\* The record of scan s holds what the performScan of s wrote and nothing
\* else: pending before its terminal write, then that write's status with
\* its own findings or its own error.
OwnWritesOnly(s) ==
  /\ scans[s].status = IF writes[s] = <<>> THEN "pending" ELSE writes[s][1]
  /\ scans[s].status = "completed" => scans[s].result_json = found[s]
  /\ scans[s].status = "failed" => scans[s].error = caught[s].message
  /\ (pc[s] = "done" /\ escaped[s] = NoThrow) => scans[s].status \in Terminal

\* C19: two initiate calls for the same url that both went on to create a
\* scan have created two records with distinct ids, each scanned by one
\* performScan; while no other writer touches them, each record holds only
\* what its own performScan wrote, is terminal once that performScan has
\* ended normally, and satisfies the record invariants.
C19_RacingScansIndependent ==
  \A r1, r2 \in ReqIds :
    (r1 # r2 /\ req[r1].scan # 0 /\ req[r2].scan # 0 /\ req[r1].url = req[r2].url) =>
      /\ req[r1].scan # req[r2].scan
      /\ \A s \in {req[r1].scan, req[r2].scan} :
           /\ scans[s] # NoScan
           /\ runs[s] = 1
           /\ extWrites = 0 => OwnWritesOnly(s) /\ RecordInvariants(scans[s])

\* C20: when the store rejects every terminal write performScan attempts
\* (the failed write of the catch block included), the ended performScan has
\* produced no failed record: the store's error has left performScan, the
\* browser, if launched, was closed once, the initiate response stands, and
\* the record is still pending while no other writer touches it.
C20_StoreErrorPropagates ==
  \A s \in ScanIds :
    (pc[s] = "done" /\ attempts[s] >= 1 /\ writes[s] = <<>>) =>
      /\ escaped[s] = Thrown(FailedToUpdateScan)
      /\ closes[s] = IF browser[s] THEN 1 ELSE 0
      /\ \A r \in ReqIds :
           req[r].scan = s =>
             resp[r] = [kind |-> "pending", scanId |-> s, status |-> "pending",
                        cached |-> FALSE]
      /\ extWrites = 0 =>
           /\ scans[s].status = "pending"
           /\ scans[s].error = Null
           /\ scans[s].score = NullNum

\* C20 witness: both the completed write and the failed write were rejected;
\* the record is pending, the store's error has left performScan after the
\* browser was closed, and the request keeps its pending response.
C20_Witness ==
  \E s \in ScanIds, r \in ReqIds :
    /\ req[r].scan = s
    /\ pc[s] = "done"
    /\ found[s] # NullObj
    /\ attempts[s] = 2
    /\ writes[s] = <<>>
    /\ escaped[s] = Thrown(FailedToUpdateScan)
    /\ closes[s] = 1
    /\ scans[s].status = "pending"
    /\ resp[r].kind = "pending"

\* C21: per scan at most two page.goto calls are made, the second only
\* after the first failed; when both fail, the step throws "Failed to load
\* page: " followed by the cause's message into the catch block, no further
\* goto is made and the rule engine has not run when performScan ends; the
\* catch block's write, when the store accepts it, records the scan as
\* failed with that message.
C21_TwoAttemptsThenFailed ==
  [][\A s \in ScanIds :
       /\ gotos'[s] <= 2
       /\ gotos'[s] = Len(loads'[s])
       /\ Len(loads'[s]) = 2 => loads'[s][1] # "ok"
       /\ (pc[s] = "navigate" /\ loads'[s] = <<"timeout", "timeout">>) =>
            /\ pc'[s] = "catch"
            /\ caught'[s] = Thrown("Failed to load page: " \o GotoTimeout)
       /\ loads[s] = <<"timeout", "timeout">> =>
            /\ loads'[s] = loads[s]
            /\ gotos'[s] = gotos[s]
            /\ found'[s] = NullObj
            /\ pc'[s] \in {"catch", "finally", "done"}
            /\ writes'[s] # writes[s] =>
                 /\ writes'[s] = <<"failed">>
                 /\ scans'[s].status = "failed"
                 /\ scans'[s].error = "Failed to load page: " \o GotoTimeout]_vars

\* C21 witness: both attempts timed out; performScan has ended with the
\* scan recorded as failed, two goto calls made and no rule run.
C21_Witness ==
  \E s \in ScanIds :
    /\ pc[s] = "done"
    /\ loads[s] = <<"timeout", "timeout">>
    /\ gotos[s] = 2
    /\ found[s] = NullObj
    /\ writes[s] = <<"failed">>
    /\ scans[s].status = "failed"
    /\ scans[s].error = FailedToLoadPage

\* C22: when the browser launch fails, performScan goes straight to the
\* catch block with the launch error: no page is opened, no goto is made,
\* the rule engine does not run, browser.close() is never called, and the
\* catch block's write, when the store accepts it, records the scan as
\* failed with the launch error's message.
C22_LaunchFailureRecorded ==
  [][\A s \in ScanIds :
       /\ (pc[s] = "launch" /\ pc'[s] # "launch" /\ ~browser'[s]) =>
            /\ pc'[s] = "catch"
            /\ caught'[s] = Thrown(LaunchFailed)
       /\ (pc[s] # "launch" /\ ~browser[s]) =>
            /\ ~browser'[s]
            /\ pc'[s] \notin {"page", "navigate", "axe", "complete"}
            /\ gotos'[s] = 0
            /\ found'[s] = NullObj
            /\ closes'[s] = 0
            /\ writes'[s] # writes[s] =>
                 /\ writes'[s] = <<"failed">>
                 /\ scans'[s].status = "failed"
                 /\ scans'[s].error = LaunchFailed]_vars

\* C22 witness: the launch failed and performScan has ended: the scan is
\* failed with the launch error, without a goto, a rule run or a close.
C22_Witness ==
  \E s \in ScanIds :
    /\ pc[s] = "done"
    /\ caught[s] = Thrown(LaunchFailed)
    /\ ~browser[s]
    /\ gotos[s] = 0
    /\ closes[s] = 0
    /\ scans[s].status = "failed"
    /\ scans[s].error = LaunchFailed

\* The scans of `url` created or completed within the trailing freshness
\* window at time t.
ScansInWindow(url, t) ==
  {s \in ScanIds :
     /\ scans[s] # NoScan
     /\ scans[s].url = url
     /\ \/ t - scans[s].created_at <= FreshnessWindowMinutes
        \/ /\ scans[s].completed_at # NullNum
           /\ t - scans[s].completed_at <= FreshnessWindowMinutes}

\* C23: a failed scan is never started again and never answered from the
\* cache; a request for a url whose scans of the last 15 minutes are all
\* failed goes on to create a scan, and that creation (when the store
\* accepts the insert) makes a pending record under an id not used before,
\* schedules its performScan, answers {cached: false} and leaves every
\* existing record, the failed ones included, unchanged.
C23_FailedScansNotReused ==
  [][/\ \A s \in ScanIds :
          (scans[s] # NoScan /\ scans[s].status = "failed") =>
            /\ runs[s] = 1
            /\ runs'[s] = runs[s]
     /\ \A r \in ReqIds :
          /\ (resp[r] = NoResp /\ resp'[r].kind = "cached") =>
               scans[resp'[r].scanId].status = "completed"
          /\ (CheckStep(r)
                /\ ScansInWindow(req'[r].url, now) # {}
                /\ \A s \in ScansInWindow(req'[r].url, now) : scans[s].status = "failed") =>
               /\ req'[r].pc = "create"
               /\ resp'[r] = NoResp
               /\ scans' = scans
          /\ (CreateStep(r) /\ resp'[r].kind # "error") =>
               /\ CreatesOnePending(r)
               /\ \A s \in ScanIds : scans[s] # NoScan => scans'[s] = scans[s]]_vars

\* C23 witness: after a scan of a url failed, a second request for the same
\* url, made within the window, got a new pending scan under a new id; the
\* failed record stands.
C23_Witness ==
  \E r \in ReqIds, s \in ScanIds :
    /\ scans[s] # NoScan
    /\ scans[s].status = "failed"
    /\ now - scans[s].created_at <= FreshnessWindowMinutes
    /\ req[r].scan \in ScanIds \ {s}
    /\ req[r].url = scans[s].url
    /\ scans[req[r].scan].created_at >= scans[s].created_at
    /\ writes[s] = <<"failed">>
    /\ runs[s] = 1
    /\ resp[r].kind = "pending"
    /\ resp[r].cached = FALSE

\* C24: capture runs only when ENABLE_SCREENSHOTS is "true", a scanId is
\* supplied and there are violations; an error while locating, testing or
\* screenshotting a node stays with that node: runAxeOnPage never throws
\* for it and returns every node (the failing ones without a screenshot),
\* performScan goes on to the completed write, and the record becomes
\* completed when the store accepts that write.
C24_CaptureIsBestEffort ==
  [][/\ (capture.axe = "idle" /\ capture'.axe # "idle") =>
          /\ capture'.axe = "capture" <=>
               /\ capture'.env = "true"
               /\ capture'.scanId # UndefinedNum
               /\ capture'.violations # <<>>
          /\ capture'.axe # "capture" =>
               /\ capture'.axe = "returned"
               /\ Len(capture'.returned) = Len(capture'.violations)
               /\ \A i \in 1..Len(capture'.violations) :
                    capture'.returned[i] = ReturnedNode(capture'.violations[i], FALSE)
     /\ capture'.started => capture.axe \in {"capture", "capturing", "returned"}
     /\ capture'.axe # "threw"
     /\ (capture.axe = "capturing" /\ capture'.axe = "returned") =>
          /\ Len(capture'.returned) = Len(capture.violations)
          /\ \A i \in 1..Len(capture.violations) :
               /\ capture'.returned[i].target = capture.violations[i]
               /\ i \in capture.errors => ~capture'.returned[i].screenshot
     /\ \A s \in ScanIds :
          (capture.scanId = s /\ capture.errors # {}) =>
            /\ (pc[s] = "axe" /\ pc'[s] # "axe") =>
                 /\ pc'[s] = "complete"
                 /\ found'[s] = AxeResults(ReturnedResults)
            /\ (pc[s] = "complete" /\ writes'[s] # writes[s]) =>
                 /\ writes'[s] = <<"completed">>
                 /\ scans'[s].status = "completed"]_vars

\* C24 witness: a scan was completed although one of its violation nodes
\* failed during capture, while another node got its screenshot.
C24_Witness ==
  \E s \in ScanIds :
    /\ capture.scanId = s
    /\ capture.env = "true"
    /\ capture.errors # {}
    /\ capture.withShot # {}
    /\ capture.axe = "returned"
    /\ Len(capture.returned) = Len(capture.violations)
    /\ \E i \in capture.errors : ~capture.returned[i].screenshot
    /\ \E i \in capture.withShot : capture.returned[i].screenshot
    /\ scans[s] # NoScan
    /\ scans[s].status = "completed"
    /\ writes[s] = <<"completed">>

\* C25: a terminal write of the performScan of scan s leaves the url, the
\* owner and the creation time of s as they were, and changes no field of
\* any other record, whatever the other scans are doing.
C25_TerminalWriteFrame ==
  [][\A s \in ScanIds :
       attempts'[s] # attempts[s] =>
         /\ scans[s] # NoScan
         /\ scans'[s].url = scans[s].url
         /\ scans'[s].user_id = scans[s].user_id
         /\ scans'[s].created_at = scans[s].created_at
         /\ \A o \in ScanIds \ {s} : scans'[o] = scans[o]]_vars

\* C25 witness: two scans with different urls, owners and creation times;
\* one has had its terminal write while the other is still pending and
\* executing.
C25_Witness ==
  \E s, o \in ScanIds :
    /\ s # o
    /\ scans[s] # NoScan
    /\ scans[o] # NoScan
    /\ scans[s].url # scans[o].url
    /\ scans[s].user_id # scans[o].user_id
    /\ scans[s].created_at # scans[o].created_at
    /\ writes[s] # <<>>
    /\ scans[s].status \in Terminal
    /\ scans[o].status = "pending"
    /\ pc[o] \in {"page", "navigate", "axe", "complete", "catch"}

\* C28: an invocation of the Lambda handler that carries a scanId makes at
\* most one database write: updateScanResults, with the score of the
\* findings scanUrl returned, when scanUrl returned, updateScanError when
\* it threw.  Whether the store accepts that write or not, the response is
\* 200 with the results, or 500 with the scan error; a rejected write
\* changes no record.
C28_LambdaWriteNeverChangesResponse ==
  [][(lambdaResp' # lambdaResp /\ lambdaResp'.scanId # UndefinedNum) =>
       LET inv == lambdaResp'
           id == inv.scanId
       IN /\ Len(inv.calls) <= 1
          /\ ~(inv.written) => scans' = scans
          /\ (IsUrl(inv.url) /\ inv.scanned) =>
               /\ inv.calls = <<"updateScanResults">>
               /\ inv.response = LambdaResponse(200, inv.results)
               /\ (inv.written /\ scans[id] # NoScan) =>
                    /\ scans'[id].status = "completed"
                    /\ scans'[id].score =
                         lambdaCalculateAccessibilityScore(Arr(inv.results.violations),
                                                           Arr(inv.results.passes))
                    /\ scans'[id].result_json = inv.results
          /\ (IsUrl(inv.url) /\ ~inv.scanned) =>
               /\ inv.calls = <<"updateScanError">>
               /\ inv.response = LambdaResponse(500, LambdaFailure(LambdaScanFailed))
               /\ (inv.written /\ scans[id] # NoScan) =>
                    /\ scans'[id].status = "failed"
                    /\ scans'[id].error = LambdaScanFailed
          /\ ~IsUrl(inv.url) =>
               /\ inv.calls = <<>>
               /\ inv.response.statusCode = 400]_vars

\* C28 witness: the handler was invoked for a pending scan, scanUrl
\* returned findings, the store rejected updateScanResults, and the handler
\* still answered 200 with the findings; the record is as it was.
C28_Witness ==
  /\ lambdaResp.invoked
  /\ lambdaResp.scanId \in ScanIds
  /\ lambdaResp.scanned
  /\ ~lambdaResp.written
  /\ lambdaResp.calls = <<"updateScanResults">>
  /\ lambdaResp.response = LambdaResponse(200, lambdaResp.results)
  /\ scans[lambdaResp.scanId] # NoScan
  /\ scans[lambdaResp.scanId].status = "pending"

\* C27: when the store accepts writes and every step of performScan
\* eventually returns or throws, every record initiate created eventually
\* has status completed or failed.
C27_EveryScanTerminates ==
  \A s \in ScanIds :
    (scans[s] # NoScan) ~> (scans[s] # NoScan /\ scans[s].status \in Terminal)

\* C27 witness: both scans were created pending and have ended, one
\* completed and one failed after an error in the browser or the rule
\* engine.
C27_Witness ==
  \E s, o \in ScanIds :
    /\ scans[s] # NoScan
    /\ scans[o] # NoScan
    /\ scans[s].status = "completed"
    /\ scans[o].status = "failed"
    /\ caught[o] # NoThrow
    /\ pc[s] = "done"
    /\ pc[o] = "done"

\* The poller has observed what makes it stop: a terminal status, or a
\* pending scan older than the staleness threshold.
ObservedStop ==
  /\ poller.mounted
  /\ poller.result # NullObj
  /\ poller.result.status \in Terminal \/ poller.error = ScanStuck

\* C26: once a fetch has observed a terminal status, or pending on a record
\* created more than 2 minutes before, the poller starts no further fetch
\* and keeps no interval (and, when stuck, no realtime subscription); and
\* no interval fires more than 40 times.
C26_PollerStops ==
  [][/\ ObservedStop => poller'.fetches = poller.fetches
     /\ (ObservedStop /\ poller.result.status \in Terminal) => ~poller.pollInterval
     /\ (ObservedStop /\ poller.error = ScanStuck) =>
          /\ ~poller.pollInterval
          /\ ~poller.realtimeChannel
     /\ poller.mounted => poller.pollCount <= maxPolls]_vars

\* The 40th firing of one interval gives up with the timeout error.
C26_PollLimitReached ==
  /\ poller.mounted
  /\ poller.pollCount = maxPolls
  /\ poller.error = ScanTimedOut
  /\ ~poller.pollInterval

\* The calls of the log that succeeded for `identifier` in the window that
\* ends at resetTime.
Granted(log, identifier, resetTime) ==
  {i \in 1..Len(log) :
     /\ log[i].identifier = identifier
     /\ log[i].result.success
     /\ log[i].result.resetTime = resetTime}

\* Every window of every identifier granted at most maxRequests calls, all
\* of them made between its creation and its resetTime.
WindowsRespected(log) ==
  \A i \in 1..Len(log) :
    log[i].result.success =>
      /\ Cardinality(Granted(log, log[i].identifier, log[i].result.resetTime))
           <= log[i].options.maxRequests
      /\ log[i].at <= log[i].result.resetTime
      /\ log[i].at >= log[i].result.resetTime - log[i].options.windowMs

\* C29: across any sequence of rateLimit calls, for every identifier and
\* (positive) options, at most maxRequests calls succeed in a window; a
\* denied call leaves the identifier's entry as it was; and the first call
\* after resetTime has passed, like the first call ever, starts a window
\* with resetTime = now + windowMs and count 1.
C29_RateLimitWindow ==
  [][rateLog' # rateLog =>
       LET call == rateLog'[Len(rateLog')]
           k == call.identifier
       IN /\ WindowsRespected(rateLog')
          /\ ~call.result.success =>
               /\ rateLimitMap[k] # NoEntry
               /\ rateLimitMap'[k] = rateLimitMap[k]
               /\ rateLimitMap[k].count = call.options.maxRequests
          /\ (rateLimitMap[k] = NoEntry \/ now > rateLimitMap[k].resetTime) =>
               /\ call.result.success
               /\ rateLimitMap'[k] = Entry(1, now + call.options.windowMs)
          /\ call.result.success =>
               /\ rateLimitMap'[k].count <= call.options.maxRequests
               /\ call.result.remaining = call.options.maxRequests - rateLimitMap'[k].count
          /\ \A o \in Identifiers \ {k} : rateLimitMap'[o] = rateLimitMap[o]]_vars

\* C29 witness: an identifier limited to 2 requests per 5 minutes was
\* granted two calls and denied a third in its first window, and was
\* granted a call again, in a new window, after that window's resetTime.
C29_Witness ==
  \E i, j, d, n \in 1..Len(rateLog) :
    /\ i < j /\ j < d /\ d < n
    /\ rateLog[i].identifier = rateLog[j].identifier
    /\ rateLog[j].identifier = rateLog[d].identifier
    /\ rateLog[d].identifier = rateLog[n].identifier
    /\ rateLog[i].options = RateLimitOptions(5, 2)
    /\ rateLog[i].result.success
    /\ rateLog[j].result.success
    /\ ~rateLog[d].result.success
    /\ rateLog[d].result.resetTime = rateLog[i].result.resetTime
    /\ rateLog[n].result.success
    /\ rateLog[n].at > rateLog[i].result.resetTime
    /\ rateLog[n].result.resetTime = rateLog[n].at + 5
    /\ rateLimitMap[rateLog[n].identifier] = Entry(1, rateLog[n].at + 5)

\* The scan a report request asks for exists, is completed, and has no
\* owner or is owned by the requester.
MayHaveReport(scanId, caller) ==
  /\ scanId \in ScanIds
  /\ scans[scanId] # NoScan
  /\ scans[scanId].status = "completed"
  /\ scans[scanId].user_id = Null \/ scans[scanId].user_id = caller

\* C30: GET /api/reports/download answers with a PDF only for a scan that
\* exists, is completed and is anonymous or owned by the requester; a
\* request the rate limit lets pass for any other scan is answered 404, 400
\* or 403 without a PDF being generated (a request the rate limit denies is
\* answered 429 before anything is read).  POST /api/reports/email
\* generates a PDF and sends it only for a scan that exists and is
\* completed.
C30_ReportOnlyForCompletedVisibleScan ==
  [][rateLog' # rateLog =>
       LET asked == report'
           response == report'.response
       IN /\ asked.limited => (response.http = 429 /\ response.pdfs = 0)
          /\ asked.route = "download" =>
               /\ response.kind = "pdf" <=> response.pdfs = 1
               /\ response.kind = "pdf" =>
                    /\ MayHaveReport(asked.scanId, asked.caller)
                    /\ response.http = 200
                    /\ response.pdf.url = scans[asked.scanId].url
               /\ (~asked.limited /\ ~MayHaveReport(asked.scanId, asked.caller)) =>
                    /\ response.http \in {404, 400, 403}
                    /\ response.pdfs = 0
               /\ (~asked.limited /\ asked.scanId \in ScanIds) =>
                    /\ scans[asked.scanId] = NoScan => response.http = 404
                    /\ (scans[asked.scanId] # NoScan
                          /\ Readable(scans[asked.scanId], asked.caller)
                          /\ scans[asked.scanId].status # "completed") =>
                         response.http \in {400, 404}
          /\ asked.route = "email" =>
               /\ (response.pdfs > 0 \/ response.sends > 0 \/ response.kind = "sent") =>
                    /\ asked.scanId \in ScanIds
                    /\ scans[asked.scanId] # NoScan
                    /\ scans[asked.scanId].status = "completed"
               /\ response.sends > 0 => response.pdfs > 0
          /\ scans' = scans]_vars

\* C30 witness: the owner of a completed scan downloaded its report, and
\* before that a request for the same scan was refused.
C30_Witness ==
  /\ report # NoResp
  /\ report.route = "download"
  /\ report.caller = "alice"
  /\ report.response.kind = "pdf"
  /\ scans[report.scanId].user_id = "alice"
  /\ scans[report.scanId].status = "completed"
  /\ Len(rateLog) >= 2

====
